---- MODULE Spec2Model ----
(***************************************************************************)
(* goCoax MoCA adapter integration: the protocol client                    *)
(* (pygocoax/client.py), its status model (pygocoax/models.py) and the     *)
(* polling coordinator (coordinator.py).                                   *)
(*                                                                         *)
(* Numbers.  Python integers are unbounded and the adapter's words are     *)
(* 32 bits wide, which does not fit the model checker's integers.  A       *)
(* Python int is therefore a record [neg, mag]: a sign and a magnitude     *)
(* written as a big-endian sequence of hex digits (0..15) without leading  *)
(* zeros; zero is [neg |-> FALSE, mag |-> <<>>].                           *)
(*                                                                         *)
(* Strings the code parses are sequences of one-character strings, so      *)
(* that parsing is computed character by character.                        *)
(***************************************************************************)
EXTENDS Integers, Sequences, FiniteSets, TLC

(***************************************************************************)
(* Python integers as sign and hex-digit magnitude                         *)
(***************************************************************************)

RECURSIVE StripZeros(_)
StripZeros(ds) ==
    IF ds = <<>> THEN <<>>
    ELSE IF Head(ds) = 0 THEN StripZeros(Tail(ds)) ELSE ds

MkNum(neg, ds) ==
    LET m == StripZeros(ds) IN [neg |-> neg /\ m # <<>>, mag |-> m]

Zero == MkNum(FALSE, <<>>)

RECURSIVE DigitsOf(_)
DigitsOf(n) == IF n = 0 THEN <<>> ELSE Append(DigitsOf(n \div 16), n % 16)

\* the Python int with the (small, non-negative) value n
Nat2Num(n) == MkNum(FALSE, DigitsOf(n))

RECURSIVE DigitsVal(_)
DigitsVal(ds) ==
    IF ds = <<>> THEN 0 ELSE DigitsVal(SubSeq(ds, 1, Len(ds) - 1)) * 16 + ds[Len(ds)]

\* a magnitude of at most six hex digits fits the checker's integers
IsSmall(x) == Len(x.mag) <= 6

SmallVal(x) == IF x.neg THEN 0 - DigitsVal(x.mag) ELSE DigitsVal(x.mag)

\* x == n, for a small non-negative n
NumEq(x, n) == IsSmall(x) /\ SmallVal(x) = n

\* x >= n, for a small non-negative n
NumGe(x, n) == (~x.neg) /\ (~IsSmall(x) \/ SmallVal(x) >= n)

\* x <= n, for a small non-negative n
NumLe(x, n) == x.neg \/ (IsSmall(x) /\ SmallVal(x) <= n)

\* ds left-padded with zeros (or cut on the left) to exactly n digits
FixWidth(ds, n) ==
    [i \in 1..n |-> IF Len(ds) - n + i >= 1 THEN ds[Len(ds) - n + i] ELSE 0]

\* ds + 1 on a fixed-width digit sequence, wrapping around
RECURSIVE IncFixed(_)
IncFixed(ds) ==
    IF ds = <<>> THEN <<>>
    ELSE LET n == Len(ds) IN
         IF ds[n] < 15 THEN [ds EXCEPT ![n] = ds[n] + 1]
         ELSE Append(IncFixed(SubSeq(ds, 1, n - 1)), 0)

\* the eight hex digits of x & 0xFFFFFFFF (two's complement for x < 0)
Low32(x) ==
    LET w == FixWidth(x.mag, 8) IN
    IF x.neg THEN IncFixed([i \in 1..8 |-> 15 - w[i]]) ELSE w

\* (x >> shift) & 0xFF for shift in {0, 8, 16, 24}, as a two-digit pair
ByteAt(x, shift) ==
    LET w == Low32(x)
        i == 7 - (shift \div 4)
    IN <<w[i], w[i + 1]>>

\* sum of two magnitudes
RECURSIVE AddMag(_, _, _)
AddMag(a, b, carry) ==
    IF a = <<>> /\ b = <<>> THEN (IF carry = 0 THEN <<>> ELSE <<carry>>)
    ELSE LET da == IF a = <<>> THEN 0 ELSE a[Len(a)]
             db == IF b = <<>> THEN 0 ELSE b[Len(b)]
             ra == IF a = <<>> THEN <<>> ELSE SubSeq(a, 1, Len(a) - 1)
             rb == IF b = <<>> THEN <<>> ELSE SubSeq(b, 1, Len(b) - 1)
             s  == da + db + carry
         IN Append(AddMag(ra, rb, s \div 16), s % 16)

\* a - b on magnitudes, for a >= b
RECURSIVE SubMag(_, _, _)
SubMag(a, b, borrow) ==
    IF a = <<>> THEN <<>>
    ELSE LET da == a[Len(a)]
             db == IF b = <<>> THEN 0 ELSE b[Len(b)]
             ra == SubSeq(a, 1, Len(a) - 1)
             rb == IF b = <<>> THEN <<>> ELSE SubSeq(b, 1, Len(b) - 1)
             d  == da - db - borrow
         IN IF d < 0 THEN Append(SubMag(ra, rb, 1), d + 16)
            ELSE Append(SubMag(ra, rb, 0), d)

\* a < b on stripped magnitudes
RECURSIVE LessMag(_, _)
LessMag(a, b) ==
    IF Len(a) # Len(b) THEN Len(a) < Len(b)
    ELSE IF a = <<>> THEN FALSE
    ELSE IF Head(a) # Head(b) THEN Head(a) < Head(b)
    ELSE LessMag(Tail(a), Tail(b))

\* x + y on Python integers
NumAdd(x, y) ==
    IF x.neg = y.neg THEN MkNum(x.neg, AddMag(x.mag, y.mag, 0))
    ELSE IF LessMag(x.mag, y.mag) THEN MkNum(y.neg, SubMag(y.mag, x.mag, 0))
    ELSE MkNum(x.neg, SubMag(x.mag, y.mag, 0))

\* x * 4294967296 for a non-negative x given by its digits
Shift32(ds) == MkNum(FALSE, ds \o <<0, 0, 0, 0, 0, 0, 0, 0>>)

(***************************************************************************)
(* Characters and strings                                                  *)
(***************************************************************************)

HexChars == <<"0", "1", "2", "3", "4", "5", "6", "7",
              "8", "9", "a", "b", "c", "d", "e", "f">>

UpperHexChars == <<"0", "1", "2", "3", "4", "5", "6", "7",
                   "8", "9", "A", "B", "C", "D", "E", "F">>

\* the value of a hex digit character, -1 for any other character
HexVal(c) ==
    IF \E i \in 1..16 : HexChars[i] = c
    THEN (CHOOSE i \in 1..16 : HexChars[i] = c) - 1
    ELSE IF \E i \in 1..16 : UpperHexChars[i] = c
    THEN (CHOOSE i \in 1..16 : UpperHexChars[i] = c) - 1
    ELSE 0 - 1

\* str.lower() on one character of the modelled alphabet
LowerChar(c) == IF HexVal(c) >= 0 THEN HexChars[HexVal(c) + 1] ELSE c

\* the characters of cs joined into one string
RECURSIVE Join(_)
Join(cs) == IF cs = <<>> THEN "" ELSE Head(cs) \o Join(Tail(cs))

\* a JSON string item, and a JSON item that is not a string (null, number)
JStr(cs) == [t |-> "str", s |-> cs]
JNull == [t |-> "null", s |-> <<>>]

\* the adapter's spelling of a 32-bit word: "0x" and eight hex digits
Word(ds) == JStr(<<"0", "x">> \o [i \in 1..8 |-> HexChars[FixWidth(ds, 8)[i] + 1]])

\* the adapter's spelling of a small number
WordOf(n) == Word(DigitsOf(n))

(***************************************************************************)
(* HexCodec: client.py _parse_hex_value, _parse_64bit_value, _hex_to_mac,  *)
(* _parse_moca_version                                                     *)
(***************************************************************************)

\* int(cs, 16) on a string: optional sign, optional 0x prefix, hex digits;
\* ok is FALSE where Python raises ValueError
IntBase16(cs) ==
    LET signed == cs # <<>> /\ Head(cs) \in {"-", "+"}
        neg    == cs # <<>> /\ Head(cs) = "-"
        s1     == IF signed THEN Tail(cs) ELSE cs
        pref   == Len(s1) >= 2 /\ s1[1] = "0" /\ s1[2] \in {"x", "X"}
        s2     == IF pref THEN SubSeq(s1, 3, Len(s1)) ELSE s1
        ok     == s2 # <<>> /\ \A i \in 1..Len(s2) : HexVal(s2[i]) >= 0
    IN [ok |-> ok,
        val |-> IF ok THEN MkNum(neg, [i \in 1..Len(s2) |-> HexVal(s2[i])]) ELSE Zero]

\* _parse_hex_value: ValueError and TypeError (a non-string item) give 0
ParseHexValue(item) ==
    IF item.t # "str" THEN Zero
    ELSE IF IntBase16(item.s).ok THEN IntBase16(item.s).val ELSE Zero

\* _parse_64bit_value; high_idx counts from 0 as in the code
Parse64BitValue(data, high_idx) ==
    IF high_idx + 1 >= Len(data) THEN Zero
    ELSE LET high == Low32(ParseHexValue(data[high_idx + 1]))
             low  == ParseHexValue(data[high_idx + 2])
         IN NumAdd(Shift32(high), low)

\* f"{b:02x}" for the byte (x >> shift) & 0xFF
ByteHex(x, shift) == HexChars[ByteAt(x, shift)[1] + 1] \o HexChars[ByteAt(x, shift)[2] + 1]

HexToMac_LowHalf(hi, lo) ==
    ByteHex(hi, 24) \o ":" \o ByteHex(hi, 16) \o ":" \o ByteHex(hi, 8) \o ":"
        \o ByteHex(hi, 0) \o ":" \o ByteHex(lo, 8) \o ":" \o ByteHex(lo, 0)

\* _hex_to_mac
HexToMac(hi, lo) ==
    ByteHex(hi, 24) \o ":" \o ByteHex(hi, 16) \o ":" \o ByteHex(hi, 8) \o ":"
        \o ByteHex(hi, 0) \o ":" \o ByteHex(lo, 24) \o ":" \o ByteHex(lo, 16)

\* quotient digits and remainder of a magnitude divided by ten
RECURSIVE DivTen(_, _)
DivTen(ds, rem) ==
    IF ds = <<>> THEN [q |-> <<>>, r |-> rem]
    ELSE LET cur  == rem * 16 + Head(ds)
             rest == DivTen(Tail(ds), cur % 10)
         IN [q |-> <<cur \div 10>> \o rest.q, r |-> rest.r]

\* str(n) for a non-negative magnitude
RECURSIVE DecStr(_)
DecStr(ds) ==
    LET m == StripZeros(ds) IN
    IF m = <<>> THEN "0"
    ELSE LET d == DivTen(m, 0) IN
         IF StripZeros(d.q) = <<>> THEN HexChars[d.r + 1]
         ELSE DecStr(d.q) \o HexChars[d.r + 1]

\* _parse_moca_version
ParseMocaVersion(ver_int) ==
    IF NumEq(ver_int, 32) THEN "2.0"
    ELSE IF NumEq(ver_int, 37) THEN "2.5"
    ELSE IF NumGe(ver_int, 32)
    THEN DecStr(SubSeq(ver_int.mag, 1, Len(ver_int.mag) - 1))
            \o "." \o DecStr(<<ver_int.mag[Len(ver_int.mag)]>>)
    ELSE "unknown"

(***************************************************************************)
(* Optional values (Python None)                                           *)
(***************************************************************************)

None == [some |-> FALSE]
Some(v) == [some |-> TRUE, val |-> v]

(***************************************************************************)
(* One HTTP exchange as the client sees it                                 *)
(*   net    "deadline"  the per-request asyncio.timeout expired            *)
(*          "transport" aiohttp raised a ClientError                       *)
(*          "answer"    a response arrived, with status, content type and  *)
(*                      body                                               *)
(* A body is either valid JSON (json is its value) or text that is not     *)
(* JSON (doc is what the HTML scraping patterns find in it).               *)
(* A JSON value has a shape: "nondict" (not a mapping), "nodata" (a        *)
(* mapping without "data"), "null" (data is null or a number, on which     *)
(* len() raises TypeError) and "list" (data is the list items).            *)
(***************************************************************************)

EmptyDoc == [hasTable |-> FALSE, rows |-> <<>>,
             firmware |-> None, model |-> None, channels |-> None]

JsonValue(shape, items) == [shape |-> shape, items |-> items]
JsonBody(v) == [valid_json |-> TRUE, json |-> v, doc |-> EmptyDoc]
TextBody(doc) == [valid_json |-> FALSE, json |-> JsonValue("nondict", <<>>), doc |-> doc]

Answer(status, ctype, body) ==
    [net |-> "answer", status |-> status, ctype |-> ctype, body |-> body]
NoAnswer(net) ==
    [net |-> net, status |-> 0, ctype |-> "", body |-> TextBody(EmptyDoc)]

CT_JSON == "application/json"
CT_HTML == "text/html"

ENDPOINT_MAC == "/ms/1/0x103/GET"
ENDPOINT_LOCAL_INFO == "/ms/0/0x15"
ENDPOINT_FRAME_INFO == "/ms/0/0x14"
ENDPOINT_FMR_INFO == "/ms/0/0x1D"
ENDPOINT_NODE_INFO == "/ms/0/0x19"
ENDPOINT_PRIVACY == "/ms/0/0x17"
ENDPOINT_CONFIG == "/ms/0/0x1A"
ENDPOINT_PHY_RATES == "/phyRates.html"
ENDPOINT_STATUS_HTML == "/index.html"

\* url.endswith("/GET")
EndsWithGET(endpoint) == endpoint = ENDPOINT_MAC

\* "json" in content_type
IsJsonType(ctype) == ctype = CT_JSON

(***************************************************************************)
(* Results of the client's operations: exc is the exception that leaves    *)
(* the operation ("none" when it returns):                                 *)
(*   "auth" GoCoaxAuthError, "connection" GoCoaxConnectionError,           *)
(*   "timeout" GoCoaxTimeoutError, "parse" GoCoaxParseError,               *)
(*   "other" an exception outside the GoCoaxError family (ValueError from  *)
(*   the JSON decoder, TypeError from len() of a non-sequence)             *)
(***************************************************************************)

Raise(kind) == [exc |-> kind]
Return(v) == [exc |-> "none", val |-> v]

\* the value _request returns: a dict, a str or another JSON value
Payload(isdict, isstr, json, doc) ==
    [isdict |-> isdict, isstr |-> isstr, json |-> json, doc |-> doc]

HandleResponse_NoAuth(resp, endpoint) ==
    IF resp.status # 200 THEN Raise("connection")
    ELSE IF IsJsonType(resp.ctype) \/ EndsWithGET(endpoint)
    THEN IF ~IsJsonType(resp.ctype) THEN Raise("client_error")
         ELSE IF ~resp.body.valid_json THEN Raise("other")
         ELSE Return(Payload(resp.body.json.shape # "nondict", FALSE,
                             resp.body.json, EmptyDoc))
    ELSE Return(Payload(FALSE, TRUE, JsonValue("nondict", <<>>), resp.body.doc))

\* _handle_response; "client_error" is an aiohttp.ClientError (resp.json()
\* raises ContentTypeError when the content type is not JSON)
HandleResponse(resp, endpoint) ==
    IF resp.status = 401 THEN Raise("auth")
    ELSE IF resp.status # 200 THEN Raise("connection")
    ELSE IF IsJsonType(resp.ctype) \/ EndsWithGET(endpoint)
    THEN IF ~IsJsonType(resp.ctype) THEN Raise("client_error")
         ELSE IF ~resp.body.valid_json THEN Raise("other")
         ELSE Return(Payload(resp.body.json.shape # "nondict", FALSE,
                             resp.body.json, EmptyDoc))
    ELSE Return(Payload(FALSE, TRUE, JsonValue("nondict", <<>>), resp.body.doc))

\* _request
Request(endpoint, x) ==
    IF x.net = "deadline" THEN Raise("timeout")
    ELSE IF x.net = "transport" THEN Raise("connection")
    ELSE LET r == HandleResponse(x, endpoint) IN
         IF r.exc = "client_error" THEN Raise("connection") ELSE r

\* isinstance(resp, dict) and "data" in resp
HasData(p) == p.isdict /\ p.json.shape # "nodata"

\* len(data) raises TypeError
NoLen(p) == p.json.shape = "null"

\* data[i], i counting from 0
At(data, i) == data[i + 1]

(***************************************************************************)
(* StatusDecoder and HtmlScraper: the per-endpoint operations of           *)
(* GoCoaxClient.  Each takes the exchange x its request meets.             *)
(***************************************************************************)

LOCAL_INFO_LINK_STATUS_IDX == 5
LOCAL_INFO_MOCA_VER_IDX == 11
LOCAL_INFO_NODE_ID_IDX == 3
LOCAL_INFO_NC_NODE_IDX == 4

FRAME_TX_GOOD_IDX == 12
FRAME_TX_BAD_IDX == 30
FRAME_TX_DROP_IDX == 48
FRAME_RX_GOOD_IDX == 66
FRAME_RX_BAD_IDX == 84
FRAME_RX_DROP_IDX == 102

NODE_SIZE == 16

Absorb_Nothing(r, default) == r

Absorb_AlsoAuth(r, default) ==
    IF r.exc \in {"connection", "parse", "auth"} THEN Return(default) ELSE r

\* except (GoCoaxConnectionError, GoCoaxParseError): log and return the default
Absorb(r, default) ==
    IF r.exc \in {"connection", "parse"} THEN Return(default) ELSE r

\* get_mac_address (its except clause names GoCoaxParseError only)
GetMacAddress(x) ==
    LET r == Request(ENDPOINT_MAC, x) IN
    IF r.exc = "parse" THEN Return("")
    ELSE IF r.exc # "none" THEN r
    ELSE IF HasData(r.val)
    THEN IF NoLen(r.val) THEN Raise("other")
         ELSE LET data == r.val.json.items IN
              IF Len(data) >= 2
              THEN Return(HexToMac(ParseHexValue(At(data, 0)), ParseHexValue(At(data, 1))))
              ELSE Return("")
    ELSE Return("")

\* data[idx] parsed if len(data) > idx else 0
FieldAt(data, idx) == IF Len(data) > idx THEN ParseHexValue(At(data, idx)) ELSE Zero

\* get_local_info
GetLocalInfo(x) ==
    LET r == Request(ENDPOINT_LOCAL_INFO, x) IN
    IF r.exc # "none" THEN r
    ELSE IF HasData(r.val)
    THEN IF NoLen(r.val) THEN Raise("other")
         ELSE LET data == r.val.json.items IN
              Return([link_status  |-> FieldAt(data, LOCAL_INFO_LINK_STATUS_IDX),
                      moca_version |-> FieldAt(data, LOCAL_INFO_MOCA_VER_IDX),
                      node_id      |-> FieldAt(data, LOCAL_INFO_NODE_ID_IDX),
                      nc_node_id   |-> FieldAt(data, LOCAL_INFO_NC_NODE_IDX),
                      raw_data     |-> data])
    ELSE Raise("parse")

PacketStats(ok, bad, dropped) == [ok |-> ok, bad |-> bad, dropped |-> dropped]

\* get_frame_info
GetFrameInfo(x) ==
    LET r == Request(ENDPOINT_FRAME_INFO, x) IN
    IF r.exc # "none" THEN r
    ELSE IF HasData(r.val)
    THEN IF NoLen(r.val) THEN Raise("other")
         ELSE LET data == r.val.json.items IN
              Return([tx |-> PacketStats(Parse64BitValue(data, FRAME_TX_GOOD_IDX),
                                         Parse64BitValue(data, FRAME_TX_BAD_IDX),
                                         Parse64BitValue(data, FRAME_TX_DROP_IDX)),
                      rx |-> PacketStats(Parse64BitValue(data, FRAME_RX_GOOD_IDX),
                                         Parse64BitValue(data, FRAME_RX_BAD_IDX),
                                         Parse64BitValue(data, FRAME_RX_DROP_IDX))])
    ELSE Raise("parse")

NetworkPeer(node_id, mac, ver) ==
    [node_id |-> node_id, mac_address |-> mac, moca_version |-> ver,
     tx_phy_rate |-> 0, rx_phy_rate |-> 0]

RECURSIVE NodeLoop_KeepsSelf(_, _, _, _)
NodeLoop_KeepsSelf(data, i, num_nodes, local_node_id) ==
    IF i >= num_nodes THEN <<>>
    ELSE LET offset   == i * NODE_SIZE
             node_id  == ParseHexValue(At(data, offset))
             mac_addr == HexToMac(ParseHexValue(At(data, offset + 1)),
                                  ParseHexValue(At(data, offset + 2)))
             rest     == NodeLoop_KeepsSelf(data, i + 1, num_nodes, local_node_id)
         IN IF node_id = Zero THEN rest
            ELSE IF mac_addr = "00:00:00:00:00:00" THEN rest
            ELSE <<NetworkPeer(node_id, mac_addr,
                               ParseMocaVersion(ParseHexValue(At(data, offset + 3))))>>
                 \o rest

\* the loop of get_node_info over records i .. num_nodes - 1
RECURSIVE NodeLoop(_, _, _, _)
NodeLoop(data, i, num_nodes, local_node_id) ==
    IF i >= num_nodes THEN <<>>
    ELSE LET offset   == i * NODE_SIZE
             node_id  == ParseHexValue(At(data, offset))
             mac_addr == HexToMac(ParseHexValue(At(data, offset + 1)),
                                  ParseHexValue(At(data, offset + 2)))
             rest     == NodeLoop(data, i + 1, num_nodes, local_node_id)
         IN IF node_id = local_node_id \/ node_id = Zero THEN rest
            ELSE IF mac_addr = "00:00:00:00:00:00" THEN rest
            ELSE <<NetworkPeer(node_id, mac_addr,
                               ParseMocaVersion(ParseHexValue(At(data, offset + 3))))>>
                 \o rest

\* get_node_info
GetNodeInfo(x, local_node_id) ==
    LET r == Request(ENDPOINT_NODE_INFO, x) IN
    IF r.exc # "none" THEN Absorb(r, <<>>)
    ELSE IF HasData(r.val)
    THEN IF NoLen(r.val) THEN Raise("other")
         ELSE LET data == r.val.json.items IN
              IF Len(data) >= NODE_SIZE
              THEN Return(NodeLoop(data, 0, Len(data) \div NODE_SIZE, local_node_id))
              ELSE Return(<<>>)
    ELSE Return(<<>>)

\* re.search(r"([0-9a-fA-F:]{17})", cell): the first run of 17 characters
\* that are hex digits or colons, lower-cased; None when there is none
MacShaped(c) == HexVal(c) >= 0 \/ c = ":"

MacMatch(cell) ==
    LET starts == {i \in 1..(Len(cell) - 16) :
                      \A k \in 0..16 : MacShaped(cell[i + k])}
    IN IF starts = {} THEN None
       ELSE LET i == CHOOSE j \in starts : \A k \in starts : j <= k
            IN Some(Join([k \in 1..17 |-> LowerChar(cell[i + k - 1])]))

DecDigits == <<"0", "1", "2", "3", "4", "5", "6", "7", "8", "9">>

IsDecDigit(c) == \E i \in 1..10 : DecDigits[i] = c

\* int(re.sub(r"[^\d]", "", cell) or "0")
RECURSIVE DigitsToInt(_, _)
DigitsToInt(cell, acc) ==
    IF cell = <<>> THEN acc
    ELSE IF IsDecDigit(Head(cell))
    THEN DigitsToInt(Tail(cell), acc * 10 + (CHOOSE i \in 1..10 : DecDigits[i] = Head(cell)) - 1)
    ELSE DigitsToInt(Tail(cell), acc)

PhyRate(source, target, tx, rx) ==
    [source_mac |-> source, target_mac |-> target, tx_rate |-> tx, rx_rate |-> rx]

\* the row loop of _parse_phy_rates_html
RECURSIVE PhyRows(_)
PhyRows(rows) ==
    IF rows = <<>> THEN <<>>
    ELSE LET cells == Head(rows) IN
         IF Len(cells) >= 3 /\ MacMatch(cells[1]).some
         THEN <<PhyRate("", MacMatch(cells[1]).val, DigitsToInt(cells[2], 0), DigitsToInt(cells[3], 0))>>
              \o PhyRows(Tail(rows))
         ELSE PhyRows(Tail(rows))

\* _parse_phy_rates_html: the first table, its rows after the header row
ParsePhyRatesHtml(doc) ==
    IF ~doc.hasTable THEN <<>>
    ELSE IF doc.rows = <<>> THEN <<>>
    ELSE PhyRows(Tail(doc.rows))

\* get_phy_rates
GetPhyRates(x) ==
    LET r == Request(ENDPOINT_PHY_RATES, x) IN
    IF r.exc # "none" THEN Absorb(r, <<>>)
    ELSE IF r.val.isstr THEN Return(ParsePhyRatesHtml(r.val.doc))
    ELSE Return(<<>>)

GetPrivacyInfo_Nonzero(x) ==
    LET r == Request(ENDPOINT_PRIVACY, x)
        default == [encryption_enabled |-> None]
    IN IF r.exc # "none" THEN Absorb(r, default)
       ELSE IF HasData(r.val)
       THEN IF NoLen(r.val) THEN Raise("other")
            ELSE LET data == r.val.json.items IN
                 IF Len(data) >= 1
                 THEN Return([encryption_enabled |->
                                 Some(ParseHexValue(At(data, 0)) # Zero)])
                 ELSE Return(default)
       ELSE Return(default)

\* get_privacy_info
GetPrivacyInfo(x) ==
    LET r == Request(ENDPOINT_PRIVACY, x)
        default == [encryption_enabled |-> None]
    IN IF r.exc # "none" THEN Absorb(r, default)
       ELSE IF HasData(r.val)
       THEN IF NoLen(r.val) THEN Raise("other")
            ELSE LET data == r.val.json.items IN
                 IF Len(data) >= 1
                 THEN Return([encryption_enabled |->
                                 Some(NumEq(ParseHexValue(At(data, 0)), 1))])
                 ELSE Return(default)
       ELSE Return(default)

\* get_fmr_info: the response is logged and not decoded
GetFmrInfo(x) ==
    LET r == Request(ENDPOINT_FMR_INFO, x)
        default == [snr |-> None, tx_power |-> None, rx_power |-> None,
                    bit_loading |-> None]
    IN IF r.exc # "none" THEN Absorb(r, default) ELSE Return(default)

LofToBand_MidAbove1225(lof) ==
    IF NumGe(lof, 1400) THEN "D-High"
    ELSE IF NumGe(lof, 1226) THEN "D-Mid"
    ELSE IF NumGe(lof, 1125) THEN "Extended-D"
    ELSE IF NumGe(lof, 1000) THEN "D-Low"
    ELSE "Unknown (" \o (IF lof.neg THEN "-" ELSE "") \o DecStr(lof.mag) \o " MHz)"

\* _lof_to_band, for lof in the range get_config_info passes
LofToBand(lof) ==
    IF NumGe(lof, 1400) THEN "D-High"
    ELSE IF NumGe(lof, 1225) THEN "D-Mid"
    ELSE IF NumGe(lof, 1125) THEN "Extended-D"
    ELSE IF NumGe(lof, 1000) THEN "D-Low"
    ELSE "Unknown (" \o (IF lof.neg THEN "-" ELSE "") \o DecStr(lof.mag) \o " MHz)"

\* get_config_info
GetConfigInfo(x) ==
    LET r == Request(ENDPOINT_CONFIG, x)
        default == [frequency_band |-> None, lof |-> None, channel_count |-> None]
    IN IF r.exc # "none" THEN Absorb(r, default)
       ELSE IF HasData(r.val)
       THEN IF NoLen(r.val) THEN Raise("other")
            ELSE LET data == r.val.json.items IN
                 IF Len(data) >= 1
                 THEN LET lof == ParseHexValue(At(data, 0)) IN
                      IF NumGe(lof, 1000) /\ NumLe(lof, 1700)
                      THEN Return([frequency_band |-> Some(LofToBand(lof)),
                                   lof |-> Some(lof), channel_count |-> None])
                      ELSE Return(default)
                 ELSE Return(default)
       ELSE Return(default)

LowerAlpha == <<"a", "b", "c", "d", "e", "f", "g", "h", "i", "j", "k", "l", "m",
                "n", "o", "p", "q", "r", "s", "t", "u", "v", "w", "x", "y", "z">>
UpperAlpha == <<"A", "B", "C", "D", "E", "F", "G", "H", "I", "J", "K", "L", "M",
                "N", "O", "P", "Q", "R", "S", "T", "U", "V", "W", "X", "Y", "Z">>

\* str.upper()
UpperChar(c) ==
    IF \E i \in 1..26 : LowerAlpha[i] = c
    THEN UpperAlpha[CHOOSE i \in 1..26 : LowerAlpha[i] = c]
    ELSE c

\* get_status_page.  The three pattern searches are modelled by their
\* matches: doc.firmware, doc.model and doc.channels are the groups the
\* patterns capture in the page (None where a pattern finds nothing).
GetStatusPage(x) ==
    LET r == Request(ENDPOINT_STATUS_HTML, x)
        default == [firmware_version |-> None, model |-> None, channel_count |-> None]
    IN IF r.exc # "none" THEN Absorb(r, default)
       ELSE IF r.val.isstr
       THEN LET doc == r.val.doc IN
            Return([firmware_version |->
                        IF doc.firmware.some THEN Some(Join(doc.firmware.val)) ELSE None,
                    model |->
                        IF doc.model.some
                        THEN Some(Join([i \in 1..Len(doc.model.val) |->
                                            UpperChar(doc.model.val[i])]))
                        ELSE None,
                    channel_count |->
                        IF doc.channels.some THEN Some(DigitsToInt(doc.channels.val, 0)) ELSE None])
       ELSE Return(default)

\* test_connection
TestConnection(x) ==
    LET r == GetMacAddress(x) IN
    IF r.exc = "none" THEN Return(r.val # "")
    ELSE IF r.exc \in {"auth", "connection"} THEN r
    ELSE Return(FALSE)

\* the endpoint each public single-request operation of the client uses
EndpointOf(op) ==
    CASE op \in {"get_mac_address", "test_connection"} -> ENDPOINT_MAC
      [] op = "get_local_info" -> ENDPOINT_LOCAL_INFO
      [] op = "get_frame_info" -> ENDPOINT_FRAME_INFO
      [] op = "get_node_info" -> ENDPOINT_NODE_INFO
      [] op = "get_phy_rates" -> ENDPOINT_PHY_RATES
      [] op = "get_privacy_info" -> ENDPOINT_PRIVACY
      [] op = "get_fmr_info" -> ENDPOINT_FMR_INFO
      [] op = "get_config_info" -> ENDPOINT_CONFIG
      [] op = "get_status_page" -> ENDPOINT_STATUS_HTML

\* get_node_info called without an argument: local_node_id = -1
DefaultLocalNodeId == MkNum(TRUE, <<1>>)

\* the operation op called on its own, its request meeting the exchange x
CallOp(op, x) ==
    CASE op = "get_mac_address" -> GetMacAddress(x)
      [] op = "test_connection" -> TestConnection(x)
      [] op = "get_local_info" -> GetLocalInfo(x)
      [] op = "get_frame_info" -> GetFrameInfo(x)
      [] op = "get_node_info" -> GetNodeInfo(x, DefaultLocalNodeId)
      [] op = "get_phy_rates" -> GetPhyRates(x)
      [] op = "get_privacy_info" -> GetPrivacyInfo(x)
      [] op = "get_fmr_info" -> GetFmrInfo(x)
      [] op = "get_config_info" -> GetConfigInfo(x)
      [] op = "get_status_page" -> GetStatusPage(x)

(***************************************************************************)
(* get_status: the nine fetches in order, then the assembly                *)
(***************************************************************************)

HOST == "192.168.1.100"

\* the local variables of one get_status call, before any fetch
NoLocals ==
    [mac_address  |-> "",
     local_info   |-> [link_status |-> Zero, moca_version |-> Zero, node_id |-> Zero,
                       nc_node_id |-> Zero, raw_data |-> <<>>],
     packets      |-> [tx |-> PacketStats(Zero, Zero, Zero),
                       rx |-> PacketStats(Zero, Zero, Zero)],
     peers        |-> <<>>,
     phy_rates    |-> <<>>,
     privacy_info |-> [encryption_enabled |-> None],
     config_info  |-> [frequency_band |-> None, lof |-> None, channel_count |-> None],
     fmr_info     |-> [snr |-> None, tx_power |-> None, rx_power |-> None,
                       bit_loading |-> None]]

LinkStatusOf_Nonzero(local_info) == local_info.link_status # Zero

\* link_status = local_info.get("link_status", 0) == 1
LinkStatusOf(local_info) == NumEq(local_info.link_status, 1)

\* a or b on optional values (Python: None and 0 are falsy)
PyOr(a, b) == IF a.some /\ a.val # 0 THEN a ELSE b

\* the tail of get_status: AdapterStatus built from the fetched parts
Assemble(l, status_page) ==
    [mac_address        |-> l.mac_address,
     ip_address         |-> HOST,
     moca_version       |-> ParseMocaVersion(l.local_info.moca_version),
     link_status        |-> LinkStatusOf(l.local_info),
     adapter_name       |-> None,
     firmware_version   |-> status_page.firmware_version,
     model              |-> status_page.model,
     packets            |-> l.packets,
     network_peers      |-> l.peers,
     phy_rates          |-> [i \in 1..Len(l.phy_rates) |->
                                [l.phy_rates[i] EXCEPT !.source_mac = l.mac_address]],
     node_id            |-> l.local_info.node_id,
     nc_node_id         |-> l.local_info.nc_node_id,
     network_controller |-> l.local_info.node_id = l.local_info.nc_node_id,
     frequency_band     |-> l.config_info.frequency_band,
     lof                |-> l.config_info.lof,
     encryption_enabled |-> l.privacy_info.encryption_enabled,
     signal_quality     |-> l.fmr_info,
     channel_count      |-> PyOr(l.config_info.channel_count, status_page.channel_count)]

(***************************************************************************)
(* AdapterStatus.to_dict (models.py).  A value of the dictionary, like a   *)
(* field of the status, is a Python value: its type and what it holds.     *)
(***************************************************************************)

PyVal(type, v) == [type |-> type, val |-> v]

\* a bool, held by its name so that it can be told from a str
PyBool(b) == PyVal("bool", IF b THEN "True" ELSE "False")

\* the primitive fields of AdapterStatus with their declared types
\* ("optional" for T | None)
FieldTypes ==
    [mac_address        |-> "str",
     ip_address         |-> "str",
     moca_version       |-> "str",
     link_status        |-> "bool",
     adapter_name       |-> "optional",
     firmware_version   |-> "optional",
     model              |-> "optional",
     node_id            |-> "int",
     nc_node_id         |-> "optional",
     network_controller |-> "bool",
     frequency_band     |-> "optional",
     lof                |-> "optional",
     channel_count      |-> "optional",
     encryption_enabled |-> "optional"]

\* self.<field>
Field(status, f) ==
    IF FieldTypes[f] = "bool" THEN PyBool(status[f]) ELSE PyVal(FieldTypes[f], status[f])

ToDict_NoLof(status) ==
    [f \in DOMAIN FieldTypes |->
        IF f = "link_status"
        THEN PyVal("str", IF status.link_status THEN "up" ELSE "down")
        ELSE IF f = "lof" THEN PyVal("optional", None)
        ELSE Field(status, f)]
    @@ [signal_quality |-> status.signal_quality,
        packets        |-> status.packets,
        network_peers  |-> status.network_peers,
        phy_rates      |-> status.phy_rates]

\* to_dict: every primitive field as held, but link_status as "up" or
\* "down"; the nested parts field by field
ToDict(status) ==
    [f \in DOMAIN FieldTypes |->
        IF f = "link_status"
        THEN PyVal("str", IF status.link_status THEN "up" ELSE "down")
        ELSE Field(status, f)]
    @@ [signal_quality |-> status.signal_quality,
        packets        |-> status.packets,
        network_peers  |-> status.network_peers,
        phy_rates      |-> status.phy_rates]

(***************************************************************************)
(* The entities of one adapter (sensor.py, binary_sensor.py): the unique   *)
(* ids given to the entities created from the snapshot data                *)
(***************************************************************************)

\* the keys of SENSOR_DESCRIPTIONS and of BINARY_SENSOR_DESCRIPTIONS
SENSOR_DESCRIPTIONS ==
    <<"moca_version", "mac_address", "node_id", "tx_packets", "rx_packets", "peer_count">>

BINARY_SENSOR_DESCRIPTIONS == <<"link_status", "network_controller", "encryption_enabled">>

\* f"{coordinator.mac_address}": the property is None without a snapshot
CoordinatorMac(snapshot) == IF snapshot.some THEN snapshot.val.mac_address ELSE "None"

\* target_mac.replace(":", "")
RECURSIVE StripColons(_)
StripColons(str) ==
    IF str = "" THEN ""
    ELSE IF SubSeq(str, 1, 1) = ":" THEN StripColons(Tail(str))
    ELSE SubSeq(str, 1, 1) \o StripColons(Tail(str))

\* str[-6:]
LastSix(str) == IF Len(str) <= 6 THEN str ELSE SubSeq(str, Len(str) - 5, Len(str))

\* GoCoaxSensor.__init__ and GoCoaxBinarySensor.__init__: _attr_unique_id
StandardUniqueId(snapshot, key) == CoordinatorMac(snapshot) \o "_" \o key

\* GoCoaxPhyRateSensor.__init__: _attr_unique_id
PhyRateUniqueId(snapshot, direction, target_mac) ==
    CoordinatorMac(snapshot) \o "_phy_" \o direction \o "_"
        \o LastSix(StripColons(target_mac))

\* the tx and the rx sensor of each PHY-rate row from index i on
RECURSIVE PhyRateSensors(_, _)
PhyRateSensors(snapshot, i) ==
    IF i > Len(snapshot.val.phy_rates) THEN <<>>
    ELSE <<PhyRateUniqueId(snapshot, "tx", snapshot.val.phy_rates[i].target_mac),
           PhyRateUniqueId(snapshot, "rx", snapshot.val.phy_rates[i].target_mac)>>
         \o PhyRateSensors(snapshot, i + 1)

\* sensor.async_setup_entry: the PHY-rate sensors it adds, a tx and an rx
\* sensor for each row, each with the target MAC it is named for and the
\* index idx (from 0) its value_fn is bound to
PhyRateEntities(snapshot) ==
    IF snapshot.some
    THEN [k \in 1..(2 * Len(snapshot.val.phy_rates)) |->
            LET row == (k + 1) \div 2
                direction == IF k % 2 = 1 THEN "tx" ELSE "rx"
            IN [target_mac |-> snapshot.val.phy_rates[row].target_mac,
                direction  |-> direction,
                idx        |-> row - 1,
                unique_id  |-> PhyRateUniqueId(snapshot, direction,
                                               snapshot.val.phy_rates[row].target_mac)]]
    ELSE <<>>

\* GoCoaxSensor.native_value of a PHY-rate sensor: value_fn on the current
\* snapshot
NativeValue(entity, snapshot) ==
    IF ~snapshot.some THEN None
    ELSE IF entity.idx < Len(snapshot.val.phy_rates)
    THEN Some(IF entity.direction = "tx"
              THEN snapshot.val.phy_rates[entity.idx + 1].tx_rate
              ELSE snapshot.val.phy_rates[entity.idx + 1].rx_rate)
    ELSE None

\* no platform set up
NoSensors == [set_up |-> FALSE, phy |-> <<>>]

\* sensor.async_setup_entry: the unique ids of the entities it adds
SensorSetupEntry(snapshot) ==
    [i \in 1..Len(SENSOR_DESCRIPTIONS) |-> StandardUniqueId(snapshot, SENSOR_DESCRIPTIONS[i])]
        \o (IF snapshot.some THEN PhyRateSensors(snapshot, 1) ELSE <<>>)

\* binary_sensor.async_setup_entry: the unique ids of the entities it adds
BinarySensorSetupEntry(snapshot) ==
    [i \in 1..Len(BINARY_SENSOR_DESCRIPTIONS) |->
        StandardUniqueId(snapshot, BINARY_SENSOR_DESCRIPTIONS[i])]

(***************************************************************************)
(* GoCoaxCoordinator._async_update_data                                    *)
(***************************************************************************)

MaxConsecutiveErrors == 5

StaleOrFail_NoStale(data, errors) == Raise("UpdateFailed")

StaleOrFail_OffByOne(data, errors) ==
    IF errors > MaxConsecutiveErrors THEN Raise("UpdateFailed")
    ELSE IF data.some THEN Return(data.val)
    ELSE Raise("UpdateFailed")

StaleOrFail_NoCheck(data, errors) ==
    IF errors >= MaxConsecutiveErrors THEN Raise("UpdateFailed")
    ELSE IF data.some THEN Return(data.val)
    ELSE Return(None)

\* the except clauses for GoCoaxTimeoutError and GoCoaxConnectionError
StaleOrFail(data, errors) ==
    IF errors >= MaxConsecutiveErrors THEN Raise("UpdateFailed")
    ELSE IF data.some THEN Return(data.val)
    ELSE Raise("UpdateFailed")

UpdateData_AuthAsConnection(got, data, errors) ==
    IF got.exc = "none" THEN [errors |-> 0, result |-> Return(got.val)]
    ELSE IF got.exc \in {"auth", "timeout", "connection"}
    THEN [errors |-> errors + 1, result |-> StaleOrFail(data, errors + 1)]
    ELSE [errors |-> errors + 1, result |-> Raise("UpdateFailed")]

UpdateData_KeepCount(got, data, errors) ==
    IF got.exc = "none" THEN [errors |-> errors, result |-> Return(got.val)]
    ELSE IF got.exc = "auth"
    THEN [errors |-> errors + 1, result |-> Raise("ConfigEntryAuthFailed")]
    ELSE IF got.exc \in {"timeout", "connection"}
    THEN [errors |-> errors + 1, result |-> StaleOrFail(data, errors + 1)]
    ELSE [errors |-> errors + 1, result |-> Raise("UpdateFailed")]

UpdateData_AuthNotCounted(got, data, errors) ==
    IF got.exc = "none" THEN [errors |-> 0, result |-> Return(got.val)]
    ELSE IF got.exc = "auth"
    THEN [errors |-> errors, result |-> Raise("ConfigEntryAuthFailed")]
    ELSE IF got.exc \in {"timeout", "connection"}
    THEN [errors |-> errors + 1, result |-> StaleOrFail(data, errors + 1)]
    ELSE [errors |-> errors + 1, result |-> Raise("UpdateFailed")]

UpdateData_UnexpectedAsConnection(got, data, errors) ==
    IF got.exc = "none" THEN [errors |-> 0, result |-> Return(got.val)]
    ELSE IF got.exc = "auth"
    THEN [errors |-> errors + 1, result |-> Raise("ConfigEntryAuthFailed")]
    ELSE [errors |-> errors + 1, result |-> StaleOrFail(data, errors + 1)]

\* _async_update_data once get_status has returned or raised (got), with
\* the cached snapshot data and the counter errors: the new counter and
\* what the refresh returns or raises
UpdateData(got, data, errors) ==
    IF got.exc = "none" THEN [errors |-> 0, result |-> Return(got.val)]
    ELSE IF got.exc = "auth"
    THEN [errors |-> errors + 1, result |-> Raise("ConfigEntryAuthFailed")]
    ELSE IF got.exc = "timeout"
    THEN [errors |-> errors + 1, result |-> StaleOrFail(data, errors + 1)]
    ELSE IF got.exc = "connection"
    THEN [errors |-> errors + 1, result |-> StaleOrFail(data, errors + 1)]
    ELSE [errors |-> errors + 1, result |-> Raise("UpdateFailed")]

(***************************************************************************)
(* The adapter.  dev is the condition the adapter is in during a poll:     *)
(*   1  link up, network controller, one peer, encryption on               *)
(*   2  link down, no network                                              *)
(*   3  a firmware that reports other codes (link status 2, privacy 2)     *)
(* Each operator below is the payload the adapter serves in condition d.   *)
(***************************************************************************)

Devices == {1, 2, 3}

OWN_MAC_HI == Word(<<10, 4, 8, 1, 7, 10, 4, 9>>)
OWN_MAC_LO == Word(<<14, 3, 13, 13, 0, 0, 0, 0>>)
PEER_MAC_HI == Word(<<10, 4, 8, 1, 7, 10, 4, 9>>)
PEER_MAC_LO == Word(<<14, 3, 13, 14, 0, 0, 0, 0>>)

Zeros(n) == [i \in 1..n |-> WordOf(0)]

\* xs with the items of the function put (index from 0 |-> item) replaced
Put(xs, put) == [i \in 1..Len(xs) |-> IF (i - 1) \in DOMAIN put THEN put[i - 1] ELSE xs[i]]

MacData(d) == <<OWN_MAC_HI, OWN_MAC_LO>>

LocalData(d) ==
    IF d = 1 THEN Put(Zeros(12), (3 :> WordOf(1)) @@ (4 :> WordOf(1)) @@ (5 :> WordOf(1))
                                   @@ (11 :> WordOf(37)))
    ELSE IF d = 2 THEN Put(Zeros(12), (11 :> WordOf(32)))
    ELSE Put(Zeros(12), (3 :> WordOf(2)) @@ (4 :> WordOf(1)) @@ (5 :> WordOf(2))
                          @@ (11 :> WordOf(49)))

FrameData(d) ==
    IF d = 1 THEN Put(Zeros(104), (13 :> WordOf(426959)) @@ (67 :> WordOf(1361613)))
    ELSE IF d = 2 THEN Zeros(104)
    ELSE Put(Zeros(104), (30 :> WordOf(1)) @@ (31 :> WordOf(2)) @@ (103 :> WordOf(7)))

NodeData(d) ==
    IF d = 1 THEN Put(Zeros(32), (0 :> WordOf(1)) @@ (1 :> OWN_MAC_HI) @@ (2 :> OWN_MAC_LO)
                                   @@ (3 :> WordOf(37)) @@ (16 :> WordOf(2))
                                   @@ (17 :> PEER_MAC_HI) @@ (18 :> PEER_MAC_LO)
                                   @@ (19 :> WordOf(37)))
    ELSE IF d = 2 THEN Zeros(16)
    ELSE Put(Zeros(53), (0 :> WordOf(1)) @@ (1 :> PEER_MAC_HI) @@ (2 :> PEER_MAC_LO)
                          @@ (3 :> WordOf(32)) @@ (16 :> WordOf(2))
                          @@ (17 :> OWN_MAC_HI) @@ (18 :> OWN_MAC_LO)
                          @@ (19 :> WordOf(49)) @@ (32 :> WordOf(3))
                          @@ (35 :> WordOf(32)) @@ (48 :> WordOf(4))
                          @@ (49 :> PEER_MAC_HI) @@ (50 :> PEER_MAC_LO)
                          @@ (51 :> WordOf(37)))

HeaderRow == <<<<"M", "A", "C">>, <<"T", "X">>, <<"R", "X">>>>

PhyDoc(d) ==
    IF d = 1
    THEN [EmptyDoc EXCEPT !.hasTable = TRUE,
            !.rows = <<HeaderRow,
                       <<<<"a", "4", ":", "8", "1", ":", "7", "a", ":", "4", "9", ":", "e", "3", ":", "d", "e">>, <<"2", "5", "0", "0", " ", "M", "b", "p", "s">>, <<"2", "4", "0", "0", " ", "M", "b", "p", "s">>>>>>]
    ELSE IF d = 2 THEN EmptyDoc
    ELSE [EmptyDoc EXCEPT !.hasTable = TRUE,
            !.rows = <<HeaderRow,
                       <<<<"n", "/", "a">>, <<"0">>>>,
                       <<<<"0", "0", ":", "1", "1", ":", "2", "2", ":", "4", "9", ":", "e", "3", ":", "d", "e">>, <<"6", "5", "0">>, <<"6", "4", "0">>>>,
                       <<<<" ", "A", "4", ":", "8", "1", ":", "7", "A", ":", "4", "9", ":", "E", "3", ":", "D", "E">>, <<"7", "0", "0">>, <<"-">>>>>>]

PrivacyData(d) == IF d = 1 THEN <<WordOf(1)>> ELSE IF d = 2 THEN <<WordOf(0)>> ELSE <<WordOf(2)>>

ConfigData(d) == IF d = 1 THEN <<WordOf(1400)>> ELSE IF d = 2 THEN <<WordOf(0)>> ELSE <<WordOf(1125)>>

FmrData(d) == Zeros(4)

PageDoc(d) ==
    IF d = 1
    THEN [EmptyDoc EXCEPT !.firmware = Some(<<"2", ".", "0", ".", "1", "1">>),
                          !.model = Some(<<"m", "a", "2", "5", "0", "0", "d">>),
                          !.channels = Some(<<"5">>)]
    ELSE IF d = 2 THEN EmptyDoc
    ELSE [EmptyDoc EXCEPT !.model = Some(<<"F", "C", "A", "2", "5", "2">>)]

JsonOk(items) == Answer(200, CT_JSON, JsonBody(JsonValue("list", items)))
HtmlOk(doc) == Answer(200, CT_HTML, TextBody(doc))

\* what the adapter in condition d answers at an endpoint when nothing goes wrong
Normal(endpoint, d) ==
    CASE endpoint = ENDPOINT_MAC -> JsonOk(MacData(d))
      [] endpoint = ENDPOINT_LOCAL_INFO -> JsonOk(LocalData(d))
      [] endpoint = ENDPOINT_FRAME_INFO -> JsonOk(FrameData(d))
      [] endpoint = ENDPOINT_NODE_INFO -> JsonOk(NodeData(d))
      [] endpoint = ENDPOINT_PHY_RATES -> HtmlOk(PhyDoc(d))
      [] endpoint = ENDPOINT_PRIVACY -> JsonOk(PrivacyData(d))
      [] endpoint = ENDPOINT_CONFIG -> JsonOk(ConfigData(d))
      [] endpoint = ENDPOINT_FMR_INFO -> JsonOk(FmrData(d))
      [] endpoint = ENDPOINT_STATUS_HTML -> HtmlOk(PageDoc(d))

\* the ways an exchange can go wrong at any endpoint: no answer in time, a
\* transport failure, a rejected login, a server error, a body that is not
\* JSON under a JSON content type, an HTML page, JSON of an unexpected shape
Anomalies ==
    {NoAnswer("deadline"), NoAnswer("transport"),
     Answer(401, CT_HTML, TextBody(EmptyDoc)),
     Answer(500, CT_HTML, TextBody(EmptyDoc)),
     Answer(200, CT_JSON, TextBody(EmptyDoc)),
     Answer(200, CT_HTML, TextBody(EmptyDoc)),
     Answer(200, CT_JSON, JsonBody(JsonValue("nondict", <<>>))),
     Answer(200, CT_JSON, JsonBody(JsonValue("nodata", <<>>))),
     Answer(200, CT_JSON, JsonBody(JsonValue("null", <<>>))),
     Answer(200, CT_JSON, JsonBody(JsonValue("list", <<>>))),
     Answer(200, CT_JSON, JsonBody(JsonValue("list", <<JNull>>)))}

\* anomalies of one endpoint's payload: the local-info list cut before
\* offset 5, and with an item at offset 5 that is not a hex number
PayloadAnomalies(endpoint, d) ==
    IF endpoint = ENDPOINT_LOCAL_INFO
    THEN {JsonOk(SubSeq(LocalData(d), 1, 5)),
          JsonOk(Put(LocalData(d), (5 :> JStr(<<"u", "p">>))))}
    ELSE {}

\* at most MaxFaults exchanges of one poll go wrong
MaxFaults == 1

\* the counter is followed up to MaxErrors
MaxErrors == 6

\* the exchanges a request may meet, each with whether it counts as a fault
Exchanges(endpoint, d) ==
    {[x |-> Normal(endpoint, d), fault |-> 0]}
    \cup {[x |-> a, fault |-> 1] : a \in Anomalies \cup PayloadAnomalies(endpoint, d)}

\* the results an operation has over the exchanges its request may meet,
\* each with the HTTP status answered (0 without an answer)
Outcomes(Op(_), endpoint, d) ==
    {[r |-> Op(e.x), fault |-> e.fault, status |-> e.x.status] :
        e \in Exchanges(endpoint, d)}

\* a table with one entry for each condition of the adapter
PerDevice(F(_)) == <<F(1), F(2), F(3)>>

MacOutcomesOf(d) == Outcomes(GetMacAddress, ENDPOINT_MAC, d)
LocalInfoOutcomesOf(d) == Outcomes(GetLocalInfo, ENDPOINT_LOCAL_INFO, d)
FrameInfoOutcomesOf(d) == Outcomes(GetFrameInfo, ENDPOINT_FRAME_INFO, d)
NodeInfoExchangesOf(d) == Exchanges(ENDPOINT_NODE_INFO, d)
PhyRatesOutcomesOf(d) == Outcomes(GetPhyRates, ENDPOINT_PHY_RATES, d)
PrivacyOutcomesOf(d) == Outcomes(GetPrivacyInfo, ENDPOINT_PRIVACY, d)
ConfigOutcomesOf(d) == Outcomes(GetConfigInfo, ENDPOINT_CONFIG, d)
FmrOutcomesOf(d) == Outcomes(GetFmrInfo, ENDPOINT_FMR_INFO, d)
StatusPageOutcomesOf(d) == Outcomes(GetStatusPage, ENDPOINT_STATUS_HTML, d)

MacOutcomes == PerDevice(MacOutcomesOf)
LocalInfoOutcomes == PerDevice(LocalInfoOutcomesOf)
FrameInfoOutcomes == PerDevice(FrameInfoOutcomesOf)
NodeInfoExchanges == PerDevice(NodeInfoExchangesOf)
PhyRatesOutcomes == PerDevice(PhyRatesOutcomesOf)
PrivacyOutcomes == PerDevice(PrivacyOutcomesOf)
ConfigOutcomes == PerDevice(ConfigOutcomesOf)
FmrOutcomes == PerDevice(FmrOutcomesOf)
StatusPageOutcomes == PerDevice(StatusPageOutcomesOf)

\* get_node_info depends on the local node id found in this poll
NodeInfoOutcomes(d, local_node_id) ==
    {[r |-> GetNodeInfo(e.x, local_node_id), fault |-> e.fault, status |-> e.x.status] :
        e \in NodeInfoExchanges[d]}

(***************************************************************************)
(* GoCoaxConfigFlow (config_flow.py).  A config entry is its unique id and *)
(* its data; the result of a flow step is a form (with the error shown),   *)
(* a created entry or an abort (with its reason).                          *)
(***************************************************************************)

DEFAULT_USERNAME == "admin"
DEFAULT_PASSWORD == "gocoax"

\* the hosts a user may enter: the first two reach the same adapter
Hosts == {HOST, "gocoax.local", "192.168.1.101"}

\* the passwords a user may enter
Passwords == {DEFAULT_PASSWORD, "moca"}

\* the MAC words served by the adapter at a host
MacDataAt(host) ==
    IF host = "192.168.1.101" THEN <<PEER_MAC_HI, PEER_MAC_LO>> ELSE <<OWN_MAC_HI, OWN_MAC_LO>>

\* the exchanges the MAC request of a validation may meet
ValidationExchanges(host) == {JsonOk(MacDataAt(host))} \cup Anomalies

ValidateConnection_AuthAsCannotConnect(x) ==
    LET r == GetMacAddress(x) IN
    IF r.exc = "none"
    THEN Return([error |-> IF r.val = "" THEN "cannot_connect" ELSE "", lookup |-> r])
    ELSE IF r.exc \in {"auth", "connection"}
    THEN Return([error |-> "cannot_connect", lookup |-> r])
    ELSE Return([error |-> "unknown", lookup |-> r])

\* _async_validate_connection: the error it returns ("" for None), with the
\* outcome of the MAC lookup it made
ValidateConnection(x) ==
    LET r == GetMacAddress(x) IN
    IF r.exc = "none"
    THEN Return([error |-> IF r.val = "" THEN "cannot_connect" ELSE "", lookup |-> r])
    ELSE IF r.exc = "auth" THEN Return([error |-> "invalid_auth", lookup |-> r])
    ELSE IF r.exc = "connection" THEN Return([error |-> "cannot_connect", lookup |-> r])
    ELSE Return([error |-> "unknown", lookup |-> r])

\* the result of a flow step
FlowResult(step, type, error, reason, lookup) ==
    [step |-> step, type |-> type, error |-> error, reason |-> reason, lookup |-> lookup]

\* no flow step has run
NoFlow == FlowResult("none", "none", "", "", [exc |-> "pending"])

\* async_show_form(step_id, errors)
ShowForm(step, error, lookup) == FlowResult(step, "form", error, "", lookup)

\* an exception leaves the step
StepRaises(step, v) == FlowResult(step, "raised", "", v.exc, v)

\* a config entry
ConfigEntry(unique_id, host, username, password) ==
    [unique_id |-> unique_id, host |-> host, username |-> username, password |-> password]

\* the entries whose unique id is mac
WithUniqueId(es, mac) == {i \in 1..Len(es) : es[i].unique_id = mac}

AbortIfUniqueIdConfigured_Never(es, mac, host) == [abort |-> FALSE, entries |-> es]

\* async_set_unique_id(mac) and _abort_if_unique_id_configured(updates =
\* {CONF_HOST: host}): with an entry of that unique id the flow aborts, the
\* entry's host updated
AbortIfUniqueIdConfigured(es, mac, host) ==
    IF WithUniqueId(es, mac) = {} THEN [abort |-> FALSE, entries |-> es]
    ELSE [abort |-> TRUE,
          entries |-> [i \in 1..Len(es) |->
                          IF es[i].unique_id = mac THEN [es[i] EXCEPT !.host = host]
                          ELSE es[i]]]

(***************************************************************************)
(* The HTTP session of a client (client.py __init__, _get_session, close). *)
(* SHARED is the session of async_get_clientsession, owned by Home         *)
(* Assistant; a session a client creates is named by its number.           *)
(***************************************************************************)

SHARED == "shared"
NoSession == "None"

\* the n-th session created by the client
OwnSession(n) == "own" \o ToString(n)

\* GoCoaxClient.__init__(session)
ClientInit(session) == [session |-> session, owns_session |-> session = NoSession]

\* _get_session: the session kept is used unless there is none or it is
\* closed, and then fresh is created and owned
GetSession(client, closed, fresh) ==
    IF client.session = NoSession \/ client.session \in closed
    THEN [created |-> {fresh}, client |-> [session |-> fresh, owns_session |-> TRUE]]
    ELSE [created |-> {}, client |-> client]

CloseSession_WhateverItHolds(client, closed) ==
    IF client.session # NoSession /\ client.session \notin closed
    THEN [closes |-> {client.session}, client |-> [client EXCEPT !.session = NoSession]]
    ELSE [closes |-> {}, client |-> client]

\* close: the sessions it closes and the client afterwards
CloseSession(client, closed) ==
    IF client.owns_session /\ client.session # NoSession /\ client.session \notin closed
    THEN [closes |-> {client.session}, client |-> [client EXCEPT !.session = NoSession]]
    ELSE [closes |-> {}, client |-> client]

\* the coordinator's client as GoCoaxCoordinator.__init__ makes it, no
\* session created or closed
NewHttp ==
    [client |-> ClientInit(SHARED), created |-> {}, closed |-> {},
     closed_by_client |-> {}, coordinator |-> "running"]

(***************************************************************************)
(* State                                                                   *)
(*   data                the coordinator's cached snapshot (self.data)     *)
(*   consecutive_errors  the coordinator's counter                         *)
(*   pc                  "idle", or the fetch the running get_status call  *)
(*                       is about to make                                  *)
(*   locals              the local variables of the running get_status     *)
(*   got                 what get_status returned or raised in the poll    *)
(*                       that ended last                                   *)
(*   refresh             what _async_update_data returned or raised then   *)
(*   dev                 the adapter's condition during the running poll,  *)
(*                       0 while no poll runs                              *)
(*   faults              exchanges gone wrong in the running poll          *)
(*   ended_at            the fetch at which that get_status call ended     *)
(*   failed_polls        polls in which get_status raised since it last    *)
(*                       returned (or since the coordinator was created)   *)
(*   call                the last call of a client operation made outside  *)
(*                       the coordinator: the operation, the exchange it   *)
(*                       met and its result                                *)
(*   requests            the endpoints requested so far in the running     *)
(*                       poll (in the poll that ended last, while idle),   *)
(*                       each with whether it was answered 401             *)
(*   sensors             the PHY-rate sensors added when the platforms     *)
(*                       were set up (set_up is FALSE before that)         *)
(*   http                the client's HTTP session: the client's _session  *)
(*                       and _owns_session, and of all sessions which are  *)
(*                       closed and which of those the client closed       *)
(***************************************************************************)
VARIABLES data, consecutive_errors, pc, locals, got, refresh, dev, faults,
          ended_at, failed_polls, call, entries, flow, requests, http, sensors

vars == <<data, consecutive_errors, pc, locals, got, refresh, dev, faults,
          ended_at, failed_polls, call, entries, flow, requests, http, sensors>>

\* the coordinator and its client, and the config entries and flows
pollvars == <<data, consecutive_errors, pc, locals, got, refresh, dev, faults,
              ended_at, failed_polls, call, requests>>
flowvars == <<entries, flow>>

NoCall == [op |-> "none"]

Pending == [exc |-> "pending"]

\* GoCoaxCoordinator.__init__: no snapshot, counter 0
Init ==
    /\ data = None
    /\ consecutive_errors = 0
    /\ pc = "idle"
    /\ locals = NoLocals
    /\ got = Pending
    /\ refresh = Pending
    /\ dev = 0
    /\ faults = 0
    /\ ended_at = "idle"
    /\ failed_polls = 0
    /\ call = NoCall
    /\ entries = <<>>
    /\ flow = NoFlow
    /\ requests = <<>>
    /\ http = NewHttp
    /\ sensors = NoSensors

\* async_setup_entry (also run by async_options_update_listener's reload):
\* a new coordinator replaces the old one, the platforms of the old one
\* unloaded
Setup ==
    /\ pc = "idle"
    /\ got # Pending
    /\ data' = None
    /\ consecutive_errors' = 0
    /\ got' = Pending
    /\ refresh' = Pending
    /\ ended_at' = "idle"
    /\ failed_polls' = 0
    /\ locals' = NoLocals
    /\ requests' = <<>>
    /\ sensors' = NoSensors
    /\ UNCHANGED <<pc, dev, faults, call, entries, flow, http>>

\* the scheduled refresh starts: _async_update_data calls get_status, with
\* the adapter in some condition.  The update coordinator runs one refresh
\* at a time.
Tick ==
    /\ pc = "idle"
    /\ consecutive_errors < MaxErrors
    /\ pc' = "mac"
    /\ locals' = NoLocals
    /\ got' = Pending
    /\ refresh' = Pending
    /\ faults' = 0
    /\ dev' \in Devices
    /\ ended_at' = "idle"
    /\ call' = NoCall
    /\ requests' = <<>>
    /\ UNCHANGED <<data, consecutive_errors, failed_polls, entries, flow, http, sensors>>

\* the endpoint requested by the fetch at a position of get_status
EndpointAt(at) ==
    CASE at = "mac" -> ENDPOINT_MAC
      [] at = "local" -> ENDPOINT_LOCAL_INFO
      [] at = "frame" -> ENDPOINT_FRAME_INFO
      [] at = "node" -> ENDPOINT_NODE_INFO
      [] at = "phy" -> ENDPOINT_PHY_RATES
      [] at = "privacy" -> ENDPOINT_PRIVACY
      [] at = "config" -> ENDPOINT_CONFIG
      [] at = "fmr" -> ENDPOINT_FMR_INFO
      [] at = "page" -> ENDPOINT_STATUS_HTML

\* the request of the fetch at a position, which met the exchange of outcome o
RequestMade(at, o) == [endpoint |-> EndpointAt(at), unauthorized |-> o.status = 401]

Finish_ClearsOnFailure(g) ==
    LET u == UpdateData(g, data, consecutive_errors) IN
    /\ got' = g
    /\ refresh' = u.result
    /\ consecutive_errors' = u.errors
    /\ data' = IF u.result.exc = "none" THEN Some(u.result.val) ELSE None
    /\ pc' = "idle"
    /\ locals' = IF g.exc = "none" THEN locals ELSE NoLocals
    /\ faults' = 0
    /\ dev' = 0
    /\ ended_at' = pc
    /\ failed_polls' = IF g.exc = "none" THEN 0 ELSE failed_polls + 1
    /\ UNCHANGED <<call, entries, flow, http, sensors>>

\* get_status ends with g; _async_update_data handles it and the update
\* coordinator stores a returned snapshot in self.data.  The parts a
\* returned status was built from stay on record until the next call.
Finish(g) ==
    LET u == UpdateData(g, data, consecutive_errors) IN
    /\ got' = g
    /\ refresh' = u.result
    /\ consecutive_errors' = u.errors
    /\ data' = IF u.result.exc = "none" THEN Some(u.result.val) ELSE data
    /\ pc' = "idle"
    /\ locals' = IF g.exc = "none" THEN locals ELSE NoLocals
    /\ faults' = 0
    /\ dev' = 0
    /\ ended_at' = pc
    /\ failed_polls' = IF g.exc = "none" THEN 0 ELSE failed_polls + 1
    /\ UNCHANGED <<call, entries, flow, http, sensors>>

\* a fetch returned v for the local variable field; get_status goes on
Continue(field, v, next, fault) ==
    /\ locals' = [locals EXCEPT ![field] = v]
    /\ pc' = next
    /\ faults' = faults + fault
    /\ UNCHANGED <<data, consecutive_errors, got, refresh, dev, ended_at,
                    failed_polls, call, entries, flow, http, sensors>>

Fetched_Retries(r, field, next, fault) ==
    IF r.exc # "none"
    THEN /\ faults' = faults + fault
         /\ UNCHANGED <<data, consecutive_errors, pc, locals, got, refresh, dev, ended_at,
                         failed_polls, call, entries, flow, http, sensors>>
    ELSE Continue(field, r.val, next, fault)

\* a fetch ended with r: the exception leaves get_status, or get_status goes on
Fetched(r, field, next, fault) ==
    IF r.exc # "none" THEN Finish(r) ELSE Continue(field, r.val, next, fault)

FetchMac ==
    /\ pc = "mac"
    /\ \E o \in MacOutcomes[dev] :
          /\ faults + o.fault <= MaxFaults
          /\ requests' = Append(requests, RequestMade(pc, o))
          /\ Fetched(o.r, "mac_address", "local", o.fault)

FetchLocalInfo ==
    /\ pc = "local"
    /\ \E o \in LocalInfoOutcomes[dev] :
          /\ faults + o.fault <= MaxFaults
          /\ requests' = Append(requests, RequestMade(pc, o))
          /\ Fetched(o.r, "local_info", "frame", o.fault)

FetchFrameInfo ==
    /\ pc = "frame"
    /\ \E o \in FrameInfoOutcomes[dev] :
          /\ faults + o.fault <= MaxFaults
          /\ requests' = Append(requests, RequestMade(pc, o))
          /\ Fetched(o.r, "packets", "node", o.fault)

\* get_node_info(local_node_id=node_id)
FetchNodeInfo ==
    /\ pc = "node"
    /\ \E o \in NodeInfoOutcomes(dev, locals.local_info.node_id) :
          /\ faults + o.fault <= MaxFaults
          /\ requests' = Append(requests, RequestMade(pc, o))
          /\ Fetched(o.r, "peers", "phy", o.fault)

FetchPhyRates_ThenConfig ==
    /\ pc = "phy"
    /\ \E o \in PhyRatesOutcomes[dev] :
          /\ faults + o.fault <= MaxFaults
          /\ requests' = Append(requests, RequestMade(pc, o))
          /\ Fetched(o.r, "phy_rates", "config", o.fault)

FetchPhyRates ==
    /\ pc = "phy"
    /\ \E o \in PhyRatesOutcomes[dev] :
          /\ faults + o.fault <= MaxFaults
          /\ requests' = Append(requests, RequestMade(pc, o))
          /\ Fetched(o.r, "phy_rates", "privacy", o.fault)

FetchPrivacy ==
    /\ pc = "privacy"
    /\ \E o \in PrivacyOutcomes[dev] :
          /\ faults + o.fault <= MaxFaults
          /\ requests' = Append(requests, RequestMade(pc, o))
          /\ Fetched(o.r, "privacy_info", "config", o.fault)

FetchConfig ==
    /\ pc = "config"
    /\ \E o \in ConfigOutcomes[dev] :
          /\ faults + o.fault <= MaxFaults
          /\ requests' = Append(requests, RequestMade(pc, o))
          /\ Fetched(o.r, "config_info", "fmr", o.fault)

FetchFmr ==
    /\ pc = "fmr"
    /\ \E o \in FmrOutcomes[dev] :
          /\ faults + o.fault <= MaxFaults
          /\ requests' = Append(requests, RequestMade(pc, o))
          /\ Fetched(o.r, "fmr_info", "page", o.fault)

\* the last fetch; get_status then builds and returns the status
FetchStatusPage ==
    /\ pc = "page"
    /\ \E o \in StatusPageOutcomes[dev] :
          /\ faults + o.fault <= MaxFaults
          /\ requests' = Append(requests, RequestMade(pc, o))
          /\ IF o.r.exc # "none" THEN Finish(o.r)
             ELSE Finish(Return(Assemble(locals, o.r.val)))

\* answers of the config endpoint with offset 0 at and around the limits of
\* the range and of the bands, below zero and wider than 32 bits
ConfigProbes ==
    {JsonOk(<<WordOf(n)>>) :
        n \in {999, 1000, 1124, 1125, 1224, 1225, 1399, 1400, 1700, 1701}}
    \cup {JsonOk(<<JStr(<<"-", "0", "x", "3", "e", "8">>)>>),
          JsonOk(<<JStr(<<"0", "x", "1", "0", "0", "0", "0", "0", "5", "7", "8">>)>>),
          JsonOk(<<JStr(<<"5", "7", "8">>), WordOf(0)>>)}

\* further answers a directly called operation may meet
Probes(op) ==
    IF op = "get_config_info" THEN {[x |-> p, fault |-> 0] : p \in ConfigProbes} ELSE {}

\* every call of the client operation op: the operation, the exchange its
\* request meets and the result
DirectCallsOf(op) ==
    {[op |-> op, x |-> e.x, r |-> CallOp(op, e.x)] :
        e \in Exchanges(EndpointOf(op), 1) \cup Exchanges(EndpointOf(op), 2)
                  \cup Exchanges(EndpointOf(op), 3) \cup Probes(op)}

ClientOpSeq ==
    <<"get_mac_address", "test_connection", "get_local_info", "get_frame_info",
      "get_node_info", "get_phy_rates", "get_privacy_info", "get_fmr_info",
      "get_config_info", "get_status_page">>

DirectCalls ==
    <<DirectCallsOf(ClientOpSeq[1]), DirectCallsOf(ClientOpSeq[2]),
      DirectCallsOf(ClientOpSeq[3]), DirectCallsOf(ClientOpSeq[4]),
      DirectCallsOf(ClientOpSeq[5]), DirectCallsOf(ClientOpSeq[6]),
      DirectCallsOf(ClientOpSeq[7]), DirectCallsOf(ClientOpSeq[8]),
      DirectCallsOf(ClientOpSeq[9]), DirectCallsOf(ClientOpSeq[10])>>

\* a caller other than the coordinator (the config flow validating a
\* connection, a test) calls one operation of a client.  The client keeps
\* nothing from one call to the next, so one call is followed, before the
\* coordinator's first poll.
DirectCall ==
    /\ pc = "idle"
    /\ got = Pending
    /\ call = NoCall
    /\ \E i \in 1..Len(ClientOpSeq) : \E c \in DirectCalls[i] : call' = c
    /\ UNCHANGED <<data, consecutive_errors, pc, locals, got, refresh, dev, faults,
                    ended_at, failed_polls, entries, flow, requests, http, sensors>>

Next ==
    \/ Tick
    \/ FetchMac
    \/ FetchLocalInfo
    \/ FetchFrameInfo
    \/ FetchNodeInfo
    \/ FetchPhyRates
    \/ FetchPrivacy
    \/ FetchConfig
    \/ FetchFmr
    \/ FetchStatusPage
    \/ Setup
    \/ DirectCall

Spec == Init /\ [][Next]_vars

(***************************************************************************)
(* The config flows: each action is one call of a step handler.  The       *)
(* registry of config entries is followed up to MaxEntries entries.        *)
(***************************************************************************)

MaxEntries == 2

\* async_step_user: without input the form is shown; with input the
\* connection is validated, and then the flow aborts if the adapter is
\* configured already, or else creates the entry
StepUser ==
    /\ \/ /\ flow' = ShowForm("user", "", Pending)
          /\ UNCHANGED entries
       \/ \E host \in Hosts, password \in Passwords :
             \E x \in ValidationExchanges(host) :
                LET v == ValidateConnection(x) IN
                IF v.exc # "none"
                THEN flow' = StepRaises("user", v) /\ UNCHANGED entries
                ELSE IF v.val.error # ""
                THEN flow' = ShowForm("user", v.val.error, v.val.lookup) /\ UNCHANGED entries
                ELSE LET mac == v.val.lookup.val
                         a   == AbortIfUniqueIdConfigured(entries, mac, host)
                     IN IF a.abort
                        THEN /\ entries' = a.entries
                             /\ flow' = FlowResult("user", "abort", "", "already_configured",
                                                   v.val.lookup)
                        ELSE /\ Len(entries) < MaxEntries
                             /\ entries' = Append(entries,
                                    ConfigEntry(mac, host, DEFAULT_USERNAME, password))
                             /\ flow' = FlowResult("user", "create_entry", "", "",
                                                   v.val.lookup)
    /\ UNCHANGED <<pollvars, http, sensors>>

\* async_step_reauth_confirm of a flow begun for the entry id (0: the entry
\* is gone by now, its host known from the entry data the flow began with)
StepReauthConfirm ==
    /\ \E begun \in {<<0, h>> : h \in Hosts}
                       \cup {<<i, entries[i].host>> : i \in 1..Len(entries)} :
          LET id   == begun[1]
              host == begun[2] IN
          \/ /\ flow' = ShowForm("reauth_confirm", "", Pending)
             /\ UNCHANGED entries
          \/ \E password \in Passwords : \E x \in ValidationExchanges(host) :
                LET v == ValidateConnection(x) IN
                IF v.exc # "none"
                THEN flow' = StepRaises("reauth_confirm", v) /\ UNCHANGED entries
                ELSE IF v.val.error # ""
                THEN /\ flow' = ShowForm("reauth_confirm", v.val.error, v.val.lookup)
                     /\ UNCHANGED entries
                ELSE IF id # 0
                THEN /\ entries' = [entries EXCEPT ![id].password = password]
                     /\ flow' = FlowResult("reauth_confirm", "abort", "",
                                           "reauth_successful", v.val.lookup)
                ELSE /\ flow' = ShowForm("reauth_confirm", "", v.val.lookup)
                     /\ UNCHANGED entries
    /\ UNCHANGED <<pollvars, http, sensors>>

FlowNext ==
    \/ StepUser
    \/ StepReauthConfirm

FlowSpec == Init /\ [][FlowNext]_vars

(***************************************************************************)
(* The codec helpers of the client called on their own, on values an       *)
(* adapter may send: each action is one call, recorded in call with its    *)
(* arguments and its result.  The helpers keep nothing from one call to    *)
(* the next, so one call is followed.                                      *)
(***************************************************************************)

\* the lists given to _parse_64bit_value have at most MaxValues items
MaxValues == 3

\* items of a data list: words, a number below zero, a number wider than 32
\* bits, text that is no number, an item that is no string
CodecItems ==
    {WordOf(0), WordOf(426959), Word(<<15, 15, 15, 15, 15, 15, 15, 15>>),
     JStr(<<"-", "1">>),
     JStr(<<"0", "x", "1", "f", "f", "f", "f", "f", "f", "f", "f">>),
     JStr(<<"z", "z">>), JNull}

CodecLists == UNION {[1..n -> CodecItems] : n \in 0..MaxValues}

\* integers given to _hex_to_mac: words, and numbers with bits above bit 31
\* or below zero
CodecInts ==
    {Zero,
     MkNum(FALSE, <<10, 4, 8, 1, 7, 10, 4, 9>>),
     MkNum(FALSE, <<14, 3, 13, 13, 0, 0, 0, 0>>),
     MkNum(FALSE, <<14, 3, 13, 13, 15, 15, 15, 15>>),
     MkNum(FALSE, <<15, 15, 15, 15>>),
     MkNum(FALSE, <<1, 0, 0, 0, 0>>),
     MkNum(FALSE, <<1, 0, 0, 0, 0, 0, 0, 0, 0>>),
     MkNum(FALSE, <<1, 10, 4, 8, 1, 7, 10, 4, 9>>),
     MkNum(TRUE, <<1>>),
     MkNum(TRUE, <<1, 0, 0, 0, 0>>)}

\* _parse_64bit_value(data, high_idx)
Parse64BitCall ==
    /\ call = NoCall
    /\ \E values \in CodecLists : \E high_idx \in 0..MaxValues :
          call' = [op |-> "_parse_64bit_value",
                   x  |-> [data |-> values, high_idx |-> high_idx],
                   r  |-> Parse64BitValue(values, high_idx)]
    /\ UNCHANGED <<data, consecutive_errors, pc, locals, got, refresh, dev, faults,
                    ended_at, failed_polls, entries, flow, requests, http, sensors>>

\* _hex_to_mac(hi, lo)
HexToMacCall ==
    /\ call = NoCall
    /\ \E hi \in CodecInts, lo \in CodecInts :
          call' = [op |-> "_hex_to_mac",
                   x  |-> [hi |-> hi, lo |-> lo],
                   r  |-> HexToMac(hi, lo)]
    /\ UNCHANGED <<data, consecutive_errors, pc, locals, got, refresh, dev, faults,
                    ended_at, failed_polls, entries, flow, requests, http, sensors>>

CodecNext ==
    \/ Parse64BitCall
    \/ HexToMacCall

CodecSpec == Init /\ [][CodecNext]_vars

(***************************************************************************)
(* The life of a client's HTTP session: requests, close() calls,           *)
(* coordinator shutdowns, and Home Assistant closing its shared session.   *)
(* The client creates at most MaxSessions sessions.                        *)
(***************************************************************************)

MaxSessions == 3

\* a client is constructed with the shared session (the coordinator, the
\* config flow) or without a session (a script, a test)
Construct ==
    /\ \E session \in {SHARED, NoSession} :
          http' = [http EXCEPT !.client = ClientInit(session),
                               !.coordinator = IF session = SHARED THEN "running" ELSE "none"]
    /\ UNCHANGED <<pollvars, flowvars, sensors>>

\* _request: the session is obtained from _get_session
SendRequest ==
    /\ Cardinality(http.created) < MaxSessions
    /\ LET g == GetSession(http.client, http.closed,
                           OwnSession(Cardinality(http.created) + 1))
       IN http' = [http EXCEPT !.client = g.client,
                               !.created = http.created \cup g.created]
    /\ UNCHANGED <<pollvars, flowvars, sensors>>

\* close() is called on the client
CloseClient ==
    /\ LET c == CloseSession(http.client, http.closed)
       IN http' = [http EXCEPT !.client = c.client,
                               !.closed = http.closed \cup c.closes,
                               !.closed_by_client = http.closed_by_client \cup c.closes]
    /\ UNCHANGED <<pollvars, flowvars, sensors>>

\* GoCoaxCoordinator.async_shutdown: the client is left as it is
Shutdown ==
    /\ http.coordinator = "running"
    /\ http' = [http EXCEPT !.coordinator = "shut down"]
    /\ UNCHANGED <<pollvars, flowvars, sensors>>

\* Home Assistant closes the shared session (at its own shutdown)
OwnerCloses ==
    /\ SHARED \notin http.closed
    /\ http' = [http EXCEPT !.closed = http.closed \cup {SHARED}]
    /\ UNCHANGED <<pollvars, flowvars, sensors>>

SessionNext ==
    \/ Construct
    \/ SendRequest
    \/ CloseClient
    \/ Shutdown
    \/ OwnerCloses

SessionSpec == Init /\ [][SessionNext]_vars

(***************************************************************************)
(* The coordinator with its sensors: async_setup_entry sets the platforms  *)
(* up once the first refresh of a new coordinator has succeeded, and the   *)
(* timer refreshes from then on.                                           *)
(***************************************************************************)

\* async_forward_entry_setups: sensor.async_setup_entry adds the sensors
\* from the snapshot of the first refresh
ForwardEntrySetups ==
    /\ pc = "idle"
    /\ ~sensors.set_up
    /\ got.exc = "none"
    /\ data.some
    /\ sensors' = [set_up |-> TRUE, phy |-> PhyRateEntities(data)]
    /\ UNCHANGED <<pollvars, flowvars, http>>

\* the first refresh of a new coordinator, and the refreshes of the timer
\* once the platforms are set up
Refresh ==
    /\ got = Pending \/ sensors.set_up
    /\ Tick

EntityNext ==
    \/ Refresh
    \/ FetchMac
    \/ FetchLocalInfo
    \/ FetchFrameInfo
    \/ FetchNodeInfo
    \/ FetchPhyRates
    \/ FetchPrivacy
    \/ FetchConfig
    \/ FetchFmr
    \/ FetchStatusPage
    \/ Setup
    \/ ForwardEntrySetups

EntitySpec == Init /\ [][EntityNext]_vars

(***************************************************************************)
(* Properties                                                              *)
(***************************************************************************)

\* the step in which the running get_status call ends and the refresh with it
PollEnds == pc # "idle" /\ pc' = "idle"

TransientKinds == {"timeout", "connection"}

\* C1: when get_status raises a timeout or connection error, the counter
\* after its increment is below 5 and a cached snapshot exists, the refresh
\* returns exactly that snapshot, raises nothing and leaves the cache as it was.
C1_StaleSnapshotReturned ==
    [][(PollEnds /\ got'.exc \in TransientKinds /\ consecutive_errors + 1 < 5 /\ data.some)
          => /\ consecutive_errors' = consecutive_errors + 1
             /\ refresh' = Return(data.val)
             /\ data' = data]_vars

C1_Witness ==
    /\ got.exc \in TransientKinds
    /\ refresh.exc = "none"
    /\ data = Some(refresh.val)
    /\ consecutive_errors \in 1..4

\* C2: when a timeout or connection error is the fifth consecutive failed
\* poll since the last successful one, the refresh raises update-failed and
\* does not return the cached snapshot, whatever the kinds of the four
\* failures before it.
C2_FifthFailureRaises ==
    [][(PollEnds /\ got'.exc \in TransientKinds /\ failed_polls' = 5 /\ data.some)
          => /\ refresh' = Raise("UpdateFailed")
             /\ data' = data]_vars

C2_Witness ==
    /\ got.exc \in TransientKinds
    /\ failed_polls = 5
    /\ data.some
    /\ refresh = Raise("UpdateFailed")

\* C3: whenever get_status raises an authentication error the refresh raises
\* the re-authentication-required signal: it neither returns a snapshot nor
\* raises update-failed, whatever the counter and the cache.
C3_AuthAlwaysReauth == got.exc = "auth" => refresh = Raise("ConfigEntryAuthFailed")

C3_Witness ==
    /\ got.exc = "auth"
    /\ data.some
    /\ consecutive_errors >= 5
    /\ refresh = Raise("ConfigEntryAuthFailed")

\* C4: after a poll in which get_status returned a status, the counter is 0
\* and the cached snapshot is exactly that status.
C4_SuccessResetsAndCaches ==
    [][(PollEnds /\ got'.exc = "none")
          => /\ consecutive_errors' = 0
             /\ refresh' = got'
             /\ data' = Some(got'.val)]_vars

C4_Witness ==
    /\ got.exc = "none"
    /\ consecutive_errors = 0
    /\ data = Some(got.val)

\* C5: when get_status raises a timeout or connection error and there is no
\* cached snapshot, the refresh raises update-failed, whatever the counter;
\* it returns nothing and the cache stays absent.
C5_NoSnapshotRaises ==
    [][(PollEnds /\ got'.exc \in TransientKinds /\ ~data.some)
          => /\ refresh' = Raise("UpdateFailed")
             /\ data' = None]_vars

C5_Witness ==
    /\ got.exc \in TransientKinds
    /\ ~data.some
    /\ consecutive_errors \in 2..4
    /\ refresh = Raise("UpdateFailed")

NonCriticalFetches == {"node", "phy", "privacy", "config", "fmr", "page"}

\* C6 (as claimed): when the MAC lookup, local info and frame info have
\* succeeded, get_status does not raise, whatever happens to the request of
\* a non-critical endpoint.
C6_NonCriticalNeverRaises ==
    ended_at \in NonCriticalFetches => got.exc = "none"

\* the value at offset idx of the local-info data parses to a nonzero number
LinkCodeNonzero(raw) ==
    Len(raw) > LOCAL_INFO_LINK_STATUS_IDX
        /\ ParseHexValue(At(raw, LOCAL_INFO_LINK_STATUS_IDX)) # Zero

\* the value at offset idx of the local-info data parses to 1
LinkCodeOne(raw) ==
    Len(raw) > LOCAL_INFO_LINK_STATUS_IDX
        /\ ParseHexValue(At(raw, LOCAL_INFO_LINK_STATUS_IDX)) = Nat2Num(1)

\* C7 (as claimed): in every status get_status returns, link_status is up
\* exactly when the value at offset 5 of the local-info data is present and
\* parses to a nonzero number.
C7_LinkUpIffNonzero ==
    got.exc = "none"
        => (got.val.link_status <=> LinkCodeNonzero(locals.local_info.raw_data))

\* C7 (amended): in every status get_status returns, link_status is up
\* exactly when the value at offset 5 of the local-info data is present and
\* parses to 1; it is down for every other value, zero or not.
C7_LinkUpIffOne ==
    got.exc = "none"
        => (got.val.link_status <=> LinkCodeOne(locals.local_info.raw_data))

\* a status returned while the adapter reported a link code other than 0 and 1
C7_Witness ==
    /\ got.exc = "none"
    /\ LinkCodeNonzero(locals.local_info.raw_data)
    /\ ~LinkCodeOne(locals.local_info.raw_data)
    /\ ~got.val.link_status
    /\ data = Some(got.val)

UnexpectedKinds == {"parse", "other"}

\* C8 (as claimed): a failure of get_status that is no authentication,
\* timeout or connection error has the outcome a connection error has in
\* the same coordinator state.
C8_UnexpectedLikeConnection ==
    [][(PollEnds /\ got'.exc \in UnexpectedKinds)
          => LET u == UpdateData(Raise("connection"), data, consecutive_errors) IN
             /\ consecutive_errors' = u.errors
             /\ refresh' = u.result]_vars

\* C8 (amended): such a failure increments the counter and always raises
\* update-failed; the cached snapshot is never returned for it, also while
\* the counter is below 5, and the cache is left as it was.
C8_UnexpectedAlwaysFails ==
    [][(PollEnds /\ got'.exc \in UnexpectedKinds)
          => /\ consecutive_errors' = consecutive_errors + 1
             /\ refresh' = Raise("UpdateFailed")
             /\ data' = data]_vars

C8_Witness ==
    /\ got.exc \in UnexpectedKinds
    /\ data.some
    /\ consecutive_errors \in 1..4
    /\ refresh = Raise("UpdateFailed")

ThreeKinds == {"auth", "connection", "timeout"}

Answered200(x) == x.net = "answer" /\ x.status = 200

\* the kinds of exception that leave a single-request operation
KindsLeaving(op) ==
    CASE op = "test_connection" -> {"auth", "connection"}
      [] op = "get_mac_address" -> ThreeKinds \cup {"other"}
      [] op \in {"get_local_info", "get_frame_info"} -> ThreeKinds \cup {"parse", "other"}
      [] OTHER -> {"auth", "timeout", "other"}

\* the kinds of exception that leave get_status from each of its fetches
KindsLeavingFetch(at) ==
    CASE at = "mac" -> KindsLeaving("get_mac_address")
      [] at \in {"local", "frame"} -> KindsLeaving("get_local_info")
      [] OTHER -> KindsLeaving("get_node_info")

C10_NoEmptyMac ==
    /\ got.exc = "none" => got.val.mac_address # ""
    /\ data.some => data.val.mac_address # ""

\* the operations that hand on whatever _request raises
HandsOn == {"get_mac_address", "get_local_info", "get_frame_info"}

\* C11: one HTTP exchange has one result: status 401 raises an
\* authentication error, any other status but 200 a connection error, a
\* missed deadline a timeout error, a transport failure a connection error,
\* and a payload is returned only for a status-200 answer.  What _request
\* raises is what leaves an operation that catches none of these.
C11_RequestClassifies ==
    call # NoCall =>
        LET x == call.x
            r == Request(EndpointOf(call.op), x)
        IN /\ (x.net = "answer" /\ x.status = 401) => r = Raise("auth")
           /\ (x.net = "answer" /\ x.status \notin {200, 401}) => r = Raise("connection")
           /\ x.net = "deadline" => r = Raise("timeout")
           /\ x.net = "transport" => r = Raise("connection")
           /\ r.exc = "none" => Answered200(x)
           /\ (call.op \in HandsOn /\ ~Answered200(x)) => call.r = r

C11_Witness ==
    /\ call # NoCall
    /\ call.op = "get_local_info"
    /\ call.x.net = "answer"
    /\ call.x.status = 401
    /\ call.r = Raise("auth")

\* C12 (as claimed): test_connection returns true exactly when the MAC lookup
\* yields a non-empty string, false when it yields the empty string, and
\* re-raises every authentication, connection and timeout failure of the
\* MAC lookup.
C12_TestConnectionReraises ==
    (call # NoCall /\ call.op = "test_connection") =>
        LET m == GetMacAddress(call.x) IN
        /\ m.exc = "none" => call.r = Return(m.val # "")
        /\ m.exc \in ThreeKinds => call.r = Raise(m.exc)

\* a status-200 JSON answer that holds no MAC: not a mapping, no data key,
\* data that is no list, or a list of fewer than two entries
NoMacIn(x) ==
    /\ Answered200(x)
    /\ IsJsonType(x.ctype)
    /\ x.body.valid_json
    /\ x.body.json.shape = "list" => Len(x.body.json.items) < 2

\* C13 (as claimed): get_mac_address returns the empty string and raises
\* nothing whenever the status-200 answer cannot be decoded into a MAC.
C13_MacLookupSoftFails ==
    (call # NoCall /\ call.op = "get_mac_address" /\ NoMacIn(call.x))
        => call.r = Return("")

\* the complete 16-value records of data, in order
RecordsOf(items) ==
    [k \in 1..(Len(items) \div 16) |-> SubSeq(items, 16 * (k - 1) + 1, 16 * k)]

\* the record is another node's: its node_id is neither 0 nor the local
\* node's and its MAC is not all-zero
IsPeerRecord(rec, local_node_id) ==
    /\ ParseHexValue(rec[1]) # Zero
    /\ ParseHexValue(rec[1]) # local_node_id
    /\ HexToMac(ParseHexValue(rec[2]), ParseHexValue(rec[3])) # "00:00:00:00:00:00"

\* the peers the claim names for the data and the local node id
PeersNamed(items, local_node_id) ==
    LET Keep(rec) == IsPeerRecord(rec, local_node_id)
        kept == SelectSeq(RecordsOf(items), Keep)
    IN [i \in 1..Len(kept) |->
           [node_id |-> ParseHexValue(kept[i][1]),
            mac_address |-> HexToMac(ParseHexValue(kept[i][2]), ParseHexValue(kept[i][3])),
            moca_version |-> ParseMocaVersion(ParseHexValue(kept[i][4])),
            tx_phy_rate |-> 0, rx_phy_rate |-> 0]]

\* C14: get_node_info returns, in record order, one peer for each complete
\* 16-value record whose node_id is neither 0 nor the local node id and whose
\* MAC is not all-zero, with that record's node_id, MAC and MoCA version;
\* the local node's record, empty slots and an incomplete trailing record
\* give no peer.  Checked for the peer table each adapter serves during a
\* poll and for every list a direct call (local node id -1) meets.
C14_PeersAreTheOtherNodes ==
    /\ (pc = "phy" /\ faults = 0)
          => locals.peers = PeersNamed(NodeData(dev), locals.local_info.node_id)
    /\ (call # NoCall /\ call.op = "get_node_info" /\ Answered200(call.x)
          /\ IsJsonType(call.x.ctype) /\ call.x.body.valid_json
          /\ call.x.body.json.shape = "list")
          => call.r = Return(PeersNamed(call.x.body.json.items, DefaultLocalNodeId))

\* the adapter whose table holds a peer, the local node, a slot with an
\* all-zero MAC and an incomplete trailing record
C14_Witness ==
    /\ pc = "phy"
    /\ faults = 0
    /\ Len(NodeData(dev)) = 53
    /\ Len(locals.peers) = 1
    /\ locals.peers[1].node_id = Nat2Num(1)

\* the step in which a new coordinator replaces the old one
NewCoordinator == pc = "idle" /\ pc' = "idle" /\ got # Pending /\ got' = Pending

\* C15: a poll that fails, whatever the coordinator answers, leaves the
\* cached snapshot as it was; a poll that succeeds replaces it by the status
\* returned; nothing else changes it while the coordinator lives.  So the
\* cache always is the status of the most recent successful poll, or absent.
C15_FailedPollKeepsCache ==
    [][/\ (PollEnds /\ got'.exc # "none") => data' = data
       /\ (PollEnds /\ got'.exc = "none") => data' = Some(got'.val)
       /\ (~PollEnds /\ ~NewCoordinator) => data' = data]_vars

C15_Witness ==
    /\ got.exc \notin {"none", "pending"}
    /\ data.some
    /\ failed_polls = 3
    /\ refresh = Return(data.val)

\* the requests of one get_status call, by the position before each, and
\* the local variable each result is kept in
RequestOrder ==
    <<"mac", "local", "frame", "node", "phy", "privacy", "config", "fmr", "page">>

ResultOf ==
    <<"mac_address", "local_info", "packets", "peers", "phy_rates", "privacy_info",
      "config_info", "fmr_info">>

\* C17: one get_status call issues its requests one after another in the
\* order MAC lookup, local info, frame info, peer table, PHY rates, privacy,
\* config, FMR, status page: the call starts at the MAC lookup, each
\* completed request leads to the next one and changes only its own result,
\* and a status is returned only after the status page.
C17_RequestsInOrder ==
    [][pc' # pc =>
          \/ pc = "idle" /\ pc' = RequestOrder[1] /\ locals' = NoLocals
          \/ pc' = "idle" /\ (got'.exc = "none" => pc = RequestOrder[9])
          \/ \E i \in 1..8 :
                /\ pc = RequestOrder[i]
                /\ pc' = RequestOrder[i + 1]
                /\ \A f \in DOMAIN locals : f # ResultOf[i] => locals'[f] = locals[f]]_vars

C17_Witness ==
    /\ pc = "page"
    /\ locals.mac_address # ""
    /\ locals.peers # <<>>
    /\ locals.phy_rates # <<>>
    /\ locals.config_info.lof.some

\* the unique ids of all entities created for the adapter from the snapshot
EntityUniqueIds(snapshot) == SensorSetupEntry(snapshot) \o BinarySensorSetupEntry(snapshot)

\* C18 (as claimed): the entities created for one adapter from one snapshot
\* (standard sensors, binary sensors, a tx and an rx sensor for every
\* PHY-rate row) have pairwise distinct unique ids.
C18_UniqueIdsDistinct ==
    data.some =>
        LET ids == EntityUniqueIds(data) IN
        \A i, j \in 1..Len(ids) : i # j => ids[i] # ids[j]

\* C19: over any sequence of user flows, an entry is created only by a user
\* step whose MAC lookup returned a non-empty MAC, that MAC is the new
\* entry's unique id, a user step for an adapter whose MAC is the unique id
\* of an existing entry aborts as already_configured and creates nothing,
\* and so no two entries share a MAC.
C19_EntriesByDistinctMac ==
    [][LET n == Len(entries) IN
       /\ Len(entries') \in {n, n + 1}
       /\ \A i \in 1..n : entries'[i].unique_id = entries[i].unique_id
       /\ Len(entries') = n + 1 =>
             /\ flow'.step = "user"
             /\ flow'.type = "create_entry"
             /\ flow'.lookup.exc = "none"
             /\ flow'.lookup.val # ""
             /\ entries'[n + 1].unique_id = flow'.lookup.val
       /\ (flow'.step = "user" /\ flow'.lookup.exc = "none"
             /\ WithUniqueId(entries, flow'.lookup.val) # {})
             => /\ flow'.type = "abort"
                /\ flow'.reason = "already_configured"
                /\ Len(entries') = n
       /\ \A i, j \in 1..Len(entries') :
             i # j => entries'[i].unique_id # entries'[j].unique_id]_vars

C19_Witness ==
    /\ Len(entries) = 2
    /\ entries[1].unique_id # entries[2].unique_id
    /\ flow.step = "user"
    /\ flow.type = "abort"
    /\ flow.reason = "already_configured"

\* C20: the validation of a user or re-authentication step never raises and
\* maps the MAC lookup's outcome to one result: authentication error gives
\* invalid_auth, connection error cannot_connect, an empty MAC
\* cannot_connect, a non-empty MAC success; on every result but success the
\* form is shown with that error and no entry is created or updated.
C20_ValidationMapsOutcome ==
    [][(flow'.step \in {"user", "reauth_confirm"} /\ flow'.lookup.exc # "pending")
          => /\ flow'.type \in {"form", "create_entry", "abort"}
             /\ flow'.lookup.exc = "auth" => flow'.error = "invalid_auth"
             /\ flow'.lookup.exc = "connection" => flow'.error = "cannot_connect"
             /\ flow'.lookup = Return("") => flow'.error = "cannot_connect"
             /\ (flow'.lookup.exc = "none" /\ flow'.lookup.val # "") => flow'.error = ""
             /\ flow'.error # "" => (flow'.type = "form" /\ entries' = entries)]_vars

C20_Witness ==
    /\ Len(entries) = 1
    /\ flow.step = "reauth_confirm"
    /\ flow.type = "form"
    /\ flow.error = "invalid_auth"
    /\ flow.lookup = Raise("auth")


\* C21 (as stated): every primitive field read back from to_dict() of the
\* cached status equals the field of the status.
C21_ToDictHoldsEveryField ==
    data.some => \A f \in DOMAIN FieldTypes : ToDict(data.val)[f] = Field(data.val, f)

\* C21 (amended): every primitive field but link_status is emitted with
\* exactly the value the status holds; link_status is emitted as the string
\* "up" when the status holds true and "down" when it holds false.
C21_ToDictHoldsAllButLink ==
    data.some =>
        /\ \A f \in DOMAIN FieldTypes \ {"link_status"} :
              ToDict(data.val)[f] = Field(data.val, f)
        /\ ToDict(data.val)["link_status"]
              = PyVal("str", IF data.val.link_status THEN "up" ELSE "down")
        /\ (ToDict(data.val)["link_status"].val = "up") <=> data.val.link_status

C21_Witness ==
    /\ data.some
    /\ data.val.link_status
    /\ data.val.lof.some
    /\ data.val.encryption_enabled = Some(TRUE)
    /\ ToDict(data.val)["link_status"].val = "up"


\* what the claim reads from the answer x of the privacy endpoint: offset 0
\* of the data where there is one
PrivacyReading(x) ==
    IF /\ x.net = "answer"
       /\ x.status = 200
       /\ x.body.valid_json
       /\ x.body.json.shape = "list"
       /\ Len(x.body.json.items) >= 1
    THEN Some(NumEq(ParseHexValue(x.body.json.items[1]), 1))
    ELSE None

\* the exchanges which end in a connection error of _request
ConnectionFailures == {x \in Anomalies : Request(ENDPOINT_PRIVACY, x) = Raise("connection")}

\* C22: encryption_enabled of a returned status is what the privacy fetch of
\* that poll read: true exactly when offset 0 of the privacy data parses to
\* 1, false for any other value at offset 0, None when the data is absent or
\* empty or the fetch failed with a connection error; it is always one of
\* true, false and None.
C22_EncryptionTriState ==
    /\ [](call.op = "get_privacy_info" =>
            /\ call.r.exc = "none" =>
                  call.r.val.encryption_enabled = PrivacyReading(call.x)
            /\ call.x \in ConnectionFailures =>
                  call.r = Return([encryption_enabled |-> None]))
    /\ [][/\ (pc = "privacy" /\ pc' = "config") =>
                LET e == locals'.privacy_info.encryption_enabled IN
                /\ e \in {Some(TRUE), Some(FALSE), None}
                /\ faults' = faults => e = PrivacyReading(Normal(ENDPOINT_PRIVACY, dev))
                /\ faults' # faults => \E a \in Anomalies : e = PrivacyReading(a)
          /\ (pc = "page" /\ got'.exc = "none") =>
                got'.val.encryption_enabled = locals.privacy_info.encryption_enabled]_vars

\* a status with encryption off, returned by the adapter whose privacy code
\* is 2
C22_Witness ==
    /\ got.exc = "none"
    /\ got.val.moca_version = "3.1"
    /\ got.val.encryption_enabled = Some(FALSE)


\* the band the claim names for a frequency of 1000..1700 MHz
BandNamed(mhz) ==
    IF mhz >= 1400 THEN "D-High"
    ELSE IF mhz >= 1225 THEN "D-Mid"
    ELSE IF mhz >= 1125 THEN "Extended-D"
    ELSE "D-Low"

BandNames == {"D-High", "D-Mid", "Extended-D", "D-Low"}

\* offset 0 of the config data lies in [1000, 1700]
LofInRange(x) ==
    /\ x.body.json.shape = "list"
    /\ Len(x.body.json.items) >= 1
    /\ LET v == ParseHexValue(x.body.json.items[1]) IN
       ~v.neg /\ IsSmall(v) /\ SmallVal(v) \in 1000..1700

\* C23: get_config_info sets lof exactly when offset 0 of the config data
\* lies in [1000, 1700], and then frequency_band is the band of that
\* frequency (D-High from 1400, D-Mid 1225..1399, Extended-D 1125..1224,
\* D-Low 1000..1124); otherwise both stay unset.  In every returned status
\* lof and frequency_band are set together or not at all and the band is one
\* of the four names.
C23_LofAndBandTogether ==
    /\ call.op = "get_config_info" /\ call.r.exc = "none" =>
          IF Answered200(call.x) /\ call.x.body.valid_json /\ LofInRange(call.x)
          THEN LET v == ParseHexValue(call.x.body.json.items[1]) IN
               /\ call.r.val.lof = Some(v)
               /\ call.r.val.frequency_band = Some(BandNamed(SmallVal(v)))
          ELSE /\ call.r.val.lof = None
               /\ call.r.val.frequency_band = None
    /\ got.exc = "none" =>
          /\ got.val.lof.some <=> got.val.frequency_band.some
          /\ got.val.lof.some =>
                /\ got.val.frequency_band.val \in BandNames
                /\ got.val.frequency_band.val = BandNamed(SmallVal(got.val.lof.val))

\* get_config_info met 1225 MHz and named the band D-Mid
C23_Witness ==
    /\ call.op = "get_config_info"
    /\ call.r.exc = "none"
    /\ call.r.val.lof = Some(Nat2Num(1225))
    /\ call.r.val.frequency_band = Some("D-Mid")


\* C24: parse_64bit(values, i) is 0 when i+1 is no index of values, and
\* otherwise high * 2^32 + low with high the low 32 bits of values[i] and low
\* the 32-bit value of values[i+1]; the result is always an unsigned 64-bit
\* number.
C24_Parse64BitUnsigned ==
    call.op = "_parse_64bit_value" =>
        LET values == call.x.data
            i      == call.x.high_idx
        IN /\ ~call.r.neg
           /\ Len(call.r.mag) <= 16
           /\ IF i + 1 >= Len(values) THEN call.r = Zero
              ELSE call.r = NumAdd(Shift32(Low32(ParseHexValue(values[i + 1]))),
                                   MkNum(FALSE, Low32(ParseHexValue(values[i + 2]))))

\* C25: hex_pair_to_mac(hi, lo) is six two-digit lowercase hex octets joined
\* by colons, the four bytes of bits 31..0 of hi followed by the two bytes of
\* bits 31..16 of lo, whatever the other bits of hi and lo are; it is
\* "00:00:00:00:00:00" exactly when those bits are all zero.
C25_MacFromBits ==
    call.op = "_hex_to_mac" =>
        LET bits == Low32(call.x.hi) \o SubSeq(Low32(call.x.lo), 1, 4)
            r    == call.r
        IN /\ Len(r) = 17
           /\ \A k \in 1..17 :
                 SubSeq(r, k, k) = IF k % 3 = 0 THEN ":"
                                   ELSE HexChars[bits[k - (k \div 3)] + 1]
           /\ (r = "00:00:00:00:00:00") <=> (\A k \in 1..12 : bits[k] = 0)

\* hex_pair_to_mac(0x1A4817A49, 0xE3DDFFFF): bit 32 of hi and the low half of
\* lo are set and do not show
C25_Witness ==
    /\ call.op = "_hex_to_mac"
    /\ call.x.hi = MkNum(FALSE, <<1, 10, 4, 8, 1, 7, 10, 4, 9>>)
    /\ call.x.lo = MkNum(FALSE, <<14, 3, 13, 13, 15, 15, 15, 15>>)
    /\ call.r = "a4:81:7a:49:e3:dd"


\* C26: within one poll get_status is called once and each endpoint is
\* requested at most once: no request is sent again after it failed, the
\* request whose failure leaves get_status is the last of the poll, and
\* after a refresh that raised nothing is requested until the next tick
\* starts a new poll.
C26_NoRetryWithinPoll ==
    /\ [](\A i, j \in 1..Len(requests) :
             i # j => requests[i].endpoint # requests[j].endpoint)
    /\ [][/\ (pc # "idle" /\ requests' # requests) =>
                /\ Len(requests') = Len(requests) + 1
                /\ SubSeq(requests', 1, Len(requests)) = requests
                /\ requests'[Len(requests')].endpoint = EndpointAt(pc)
                /\ pc' # pc
                /\ got = Pending
          /\ (PollEnds /\ got'.exc # "none") => pc' = "idle" /\ refresh'.exc # "pending"
          /\ (pc = "idle" /\ requests' # requests) =>
                requests' = <<>> /\ (pc' = "mac" \/ got' = Pending)
          /\ (pc = "idle" /\ pc' # "idle") =>
                pc' = "mac" /\ got' = Pending /\ refresh' = Pending]_vars

\* a poll in which the fourth request failed for good: update-failed raised
\* after four requests, none sent twice
C26_Witness ==
    /\ pc = "idle"
    /\ got.exc = "timeout"
    /\ refresh = Raise("UpdateFailed")
    /\ [i \in 1..Len(requests) |-> requests[i].endpoint]
          = <<ENDPOINT_MAC, ENDPOINT_LOCAL_INFO, ENDPOINT_FRAME_INFO, ENDPOINT_NODE_INFO>>


\* C27: over any sequence of requests, close() calls and coordinator
\* shutdowns the client closes only sessions it created itself: the session
\* supplied at construction is never closed by the client or by a coordinator
\* shutdown, and stays open for the other adapters until its owner closes it.
C27_ClosesOnlyOwnSessions ==
    /\ [](/\ http.closed_by_client \subseteq http.created
          /\ SHARED \notin http.closed_by_client
          /\ SHARED \notin http.created)
    /\ [][(SHARED \in http.closed' /\ SHARED \notin http.closed)
             => /\ http.closed_by_client' = http.closed_by_client
                /\ http.client' = http.client
                /\ http.coordinator' = http.coordinator]_vars

\* the client given the shared session was closed after Home Assistant had
\* closed that session and the client had made a session of its own
C27_Witness ==
    /\ SHARED \in http.closed
    /\ http.closed_by_client # {}
    /\ http.coordinator = "shut down"
    /\ http.client = [session |-> NoSession, owns_session |-> TRUE]


\* C28: between polls the counter equals the number of polls in which
\* get_status failed since it last succeeded (or since the coordinator was
\* created), failures of every kind counted; and a failing poll that leaves
\* the counter at 5 or more raises, whatever its kind and whatever is cached.
C28_CounterCountsEveryFailure ==
    /\ [](pc = "idle" => consecutive_errors = failed_polls)
    /\ [][PollEnds =>
             /\ got'.exc = "none" => consecutive_errors' = 0
             /\ got'.exc # "none" =>
                   /\ consecutive_errors' = consecutive_errors + 1
                   /\ consecutive_errors' >= MaxConsecutiveErrors =>
                         refresh'.exc \in {"UpdateFailed", "ConfigEntryAuthFailed"}]_vars

\* a rejected login was the fifth failed poll in a row, with a snapshot cached
C28_Witness ==
    /\ pc = "idle"
    /\ got.exc = "auth"
    /\ consecutive_errors = 5
    /\ failed_polls = 5
    /\ data.some
    /\ refresh = Raise("ConfigEntryAuthFailed")


\* C29: a request of a poll answered 401, at whichever of the nine endpoints,
\* ends the poll there with the re-authentication-required signal: nothing
\* is returned (no default value in a status, no stale snapshot) and
\* update-failed is not raised.
C29_UnauthorizedEndsPoll ==
    /\ []((pc = "idle" /\ \E i \in 1..Len(requests) : requests[i].unauthorized)
             => /\ requests[Len(requests)].unauthorized
                /\ got = Raise("auth")
                /\ refresh = Raise("ConfigEntryAuthFailed"))
    /\ [][(requests' # requests /\ requests' # <<>>
             /\ requests'[Len(requests')].unauthorized)
             => /\ pc' = "idle"
                /\ got' = Raise("auth")
                /\ refresh' = Raise("ConfigEntryAuthFailed")
                /\ data' = data]_vars

\* the status page, the last and a non-critical request, was answered 401
\* with a snapshot cached
C29_Witness ==
    /\ pc = "idle"
    /\ Len(requests) = 9
    /\ requests[9] = [endpoint |-> ENDPOINT_STATUS_HTML, unauthorized |-> TRUE]
    /\ data.some
    /\ refresh = Raise("ConfigEntryAuthFailed")


\* the rate the current snapshot has for the target MAC, nothing without a
\* row for it
RateNamed(snapshot, target_mac, direction) ==
    IF snapshot.some /\ \E i \in 1..Len(snapshot.val.phy_rates) :
                            snapshot.val.phy_rates[i].target_mac = target_mac
    THEN LET i == CHOOSE i \in 1..Len(snapshot.val.phy_rates) :
                     snapshot.val.phy_rates[i].target_mac = target_mac
         IN Some(IF direction = "tx" THEN snapshot.val.phy_rates[i].tx_rate
                 ELSE snapshot.val.phy_rates[i].rx_rate)
    ELSE None

\* C30: between polls, every PHY-rate sensor reports the tx (or rx) rate
\* which the current snapshot has for the target MAC the sensor was created
\* for, and no value when the snapshot has no row for that MAC.
C30_SensorFollowsItsMac ==
    (pc = "idle" /\ sensors.set_up) =>
        \A k \in 1..Len(sensors.phy) :
            NativeValue(sensors.phy[k], data)
                = RateNamed(data, sensors.phy[k].target_mac, sensors.phy[k].direction)

====
